---- MODULE Spec2Model ----
(***************************************************************************)
(* Decision-cycle engine of the trading-agent orchestrator:                *)
(*   - the Redis named lock (backend/app/core/locks.py),                   *)
(*   - the manual and the scheduled decision trigger                       *)
(*     (backend/app/api/agents.py),                                        *)
(*   - the task executor (backend/app/core/task_executor.py).              *)
(* Four specifications share the variables: SpecLock drives the lock       *)
(* operations alone, Spec two overlapping triggers, SpecCycle one trigger  *)
(* in full detail, SpecTask execute_task.                                  *)
(***************************************************************************)
EXTENDS Integers, Sequences, FiniteSets, TLC

VARIABLES
    redis,      \* lock key -> [val: owner token or NoTok, ttl: seconds left]
    lk,         \* SpecLock: lock instance -> its fields and its place in acquire
    lkLast,     \* SpecLock: the last call that returned, and what it did to the key
    agents,     \* model_agents rows: agent id -> [status, cash, provider]
    positions,  \* positions rows: agent id -> [shares, avg_cost, today]
    orders,     \* orders rows
    txs,        \* transactions rows
    llmLogs,    \* llm_request_logs rows; the auto-increment id is the index
    decisionLogs, \* decision_logs rows
    req,        \* Spec, SpecCycle: trigger invocation -> its local state
    task,       \* SpecTask: the system_tasks row being run
    taskLogs,   \* SpecTask: system_task_logs rows
    run,        \* SpecTask: local state of the execute_task invocation
    effects,    \* SpecTask: calls that left the executor (callback, sync, refresh)
    quotes,     \* SpecQuote: stock_quotes rows, in insertion order
    upserted,   \* SpecQuote: history of the upsert calls made
    templates,  \* SpecTemplate: prompt_templates rows by template id
    tplCache,   \* SpecTemplate: the prompt manager's in-memory templates
    tplLast,    \* SpecTemplate: the last template request, the row before and after
    stockLast,  \* SpecStock: the last stock request, what it raised and its answer
    market,     \* SpecMarket: market_data rows and the last refresh_all call
    manager,    \* the module-level agent manager, its llm_client
    fan,        \* SpecFan: the trigger_all_decisions call and its db session
    cache,      \* SpecCache: the cache service, key -> the value stored
    fetchLast,  \* SpecCache: the last stock request, its upstream calls and answer
    stockReq    \* SpecCache: the stock requests in progress

vars == <<redis, lk, lkLast, agents, positions, orders, txs, llmLogs, decisionLogs,
          req, task, taskLogs, run, effects, quotes, upserted,
          templates, tplCache, tplLast, stockLast, market,
          manager, fan, cache, fetchLast, stockReq>>

lockVars == <<redis, lk, lkLast>>
dbVars == <<agents, positions, orders, txs, llmLogs, decisionLogs>>
taskVars == <<task, taskLogs, run, effects>>
quoteVars == <<quotes, upserted>>
tplVars == <<templates, tplCache, tplLast>>
cacheVars == <<cache, fetchLast, stockReq>>
svcVars == <<templates, tplCache, tplLast, stockLast, market, manager, fan, cache, fetchLast,
             stockReq>>

\* ------------------------------------------------------------------ bounds
\* Seconds that pass in one step of time on a key of a lock instance, and on
\* a decision-lock key while cycles run.
LockTickSeconds == 15
DecisionTickSeconds == 300

\* ------------------------------------------------------- program constants
\* DistributedLock.__init__ defaults: ttl (seconds) and retry_times
DefaultTtl == 30
DefaultRetryTimes == 3
\* LockTTL.AGENT_DECISION (seconds)
DecisionTtl == 300
\* agent_decision_lock: retry_times=1
DecisionRetryTimes == 1

Agents == {"a1", "a2"}
\* The key "lock:agent:decision:<agent_id>" is named by its agent id.
LockKeys == Agents
Insts == {"i1", "i2"}
Reqs == {"r1", "r2"}
NoTok == "none"
Tokens == Insts \cup Reqs
NoVal == [val |-> NoTok, ttl |-> 0]

\* ==================================================================== locks
\* redis.set(key, value, nx=True, ex=ttl): whether the key was set.
SetNxOk(store, k) == store[k].val = NoTok

SetNx(store, k, tok, ttl) ==
    IF SetNxOk(store, k)
    THEN [store EXCEPT ![k] = [val |-> tok, ttl |-> ttl]]
    ELSE store

\* The release script: get(KEYS[1]) == ARGV[1] -> del, else 0.
MutReleaseAnyOwner(store, k, tok) == store[k].val # NoTok
LuaReleaseOk(store, k, tok) == store[k].val = tok

LuaRelease(store, k, tok) ==
    IF LuaReleaseOk(store, k, tok) THEN [store EXCEPT ![k] = NoVal] ELSE store

\* The extend script: get(KEYS[1]) == ARGV[1] -> expire(KEYS[1], ARGV[2]), else 0.
MutExtendAnyOwner(store, k, tok) == store[k].val # NoTok
LuaExtendOk(store, k, tok) == store[k].val = tok

LuaExtend(store, k, tok, ttl) ==
    IF LuaExtendOk(store, k, tok) THEN [store EXCEPT ![k].ttl = ttl] ELSE store

\* dt seconds passing on one key: the TTL runs down and Redis drops the key
\* at 0.
Tick(k, dt) ==
    /\ redis[k].val # NoTok
    /\ redis' = [redis EXCEPT ![k] =
                    IF redis[k].ttl > dt
                    THEN [redis[k] EXCEPT !.ttl = redis[k].ttl - dt]
                    ELSE NoVal]

\* The last call that returned: the instance, what was called, what it
\* returned, the SET NX attempts made, whether the instance had acquired
\* before, the key before and after, whether the Redis call raised, and the
\* expiry handed to Redis (0 when none is); of an acquire also its blocking
\* argument, what each attempt came to and the sleeps made.
NoCall == [inst |-> "none", op |-> "none", ret |-> FALSE, attempts |-> 0,
           had |-> FALSE, before |-> NoVal, after |-> NoVal, raised |-> FALSE,
           ttl |-> 0, blocking |-> FALSE, tries |-> <<>>, sleeps |-> 0]
Called(i, op, ret, n, k) ==
    [inst |-> i, op |-> op, ret |-> ret, attempts |-> n, had |-> lk[i].acquired,
     before |-> redis[k], after |-> redis'[k], raised |-> FALSE, ttl |-> 0,
     blocking |-> FALSE, tries |-> <<>>, sleeps |-> 0]

\* "for attempt in range(self.retry_times if blocking else 1)": the number of
\* SET NX attempts acquire(blocking) makes.
AcquireAttempts(retry_times, blocking) == IF blocking THEN retry_times ELSE 1

\* DistributedLock.acquire / AsyncDistributedLock.acquire_async: one pass of
\* the attempt loop (one SET NX, or a Redis error), up to the sleep or the return.
\* "if blocking and attempt < self.retry_times - 1": whether a failed attempt
\* is followed by a sleep.
MutSleepsAfterEvery(blocking, attempt, retry_times) == blocking
SleepsAfter(blocking, attempt, retry_times) == blocking /\ attempt < retry_times - 1

LockAcquire(i, blocking, err) ==
    /\ \/ lk[i].pc = "idle"
       \/ lk[i].pc = "sleep" /\ blocking
    /\ AcquireAttempts(lk[i].retry_times, blocking) > 0
    /\ LET k == lk[i].key
           attempt == lk[i].attempt
           got == ~err /\ SetNxOk(redis, k)
           more == attempt + 1 < AcquireAttempts(lk[i].retry_times, blocking)
           tries == Append(lk[i].tries,
                           IF err THEN "error" ELSE IF got THEN "set" ELSE "taken")
           sleeps == IF ~got /\ SleepsAfter(blocking, attempt, lk[i].retry_times)
                     THEN lk[i].sleeps + 1 ELSE lk[i].sleeps
       IN /\ redis' = IF err THEN redis ELSE SetNx(redis, k, i, lk[i].ttl)
          /\ IF ~got /\ more
             THEN /\ lk' = [lk EXCEPT ![i].pc = "sleep", ![i].attempt = attempt + 1,
                                      ![i].tries = tries, ![i].sleeps = sleeps]
                  /\ UNCHANGED lkLast
             ELSE /\ lk' = [lk EXCEPT ![i].pc = "idle", ![i].attempt = 0,
                                      ![i].tries = <<>>, ![i].sleeps = 0,
                                      ![i].acquired = got \/ lk[i].acquired]
                  /\ lkLast' = [Called(i, "acquire", got, attempt + 1, k)
                                   EXCEPT !.raised = err, !.ttl = lk[i].ttl,
                                          !.blocking = blocking, !.tries = tries,
                                          !.sleeps = sleeps]
    /\ UNCHANGED <<dbVars, req, taskVars, quoteVars, svcVars>>

\* DistributedLock.release
LockRelease(i, err) ==
    /\ lk[i].pc = "idle"
    /\ LET k == lk[i].key
           ok == ~err /\ LuaReleaseOk(redis, k, i)
       IN /\ redis' = IF err THEN redis ELSE LuaRelease(redis, k, i)
          /\ lkLast' = [Called(i, "release", ok, 0, k) EXCEPT !.raised = err]
          /\ lk' = [lk EXCEPT ![i].acquired = FALSE]
    /\ UNCHANGED <<dbVars, req, taskVars, quoteVars, svcVars>>

\* DistributedLock.extend(additional_time); 0 stands for None.
LockExtend(i, additional_time, err) ==
    /\ lk[i].pc = "idle"
    /\ LET k == lk[i].key
           ttl == IF additional_time = 0 THEN lk[i].ttl ELSE additional_time
           ok == ~err /\ LuaExtendOk(redis, k, i)
       IN /\ redis' = IF err THEN redis ELSE LuaExtend(redis, k, i, ttl)
          /\ lkLast' = [Called(i, "extend", ok, 0, k)
                           EXCEPT !.raised = err, !.ttl = ttl]
    /\ UNCHANGED <<lk, dbVars, req, taskVars, quoteVars, svcVars>>

\* TTL expiry while lock instances work.
LockTick(k) == Tick(k, LockTickSeconds) /\ UNCHANGED <<lk, lkLast, dbVars, req, taskVars, quoteVars, svcVars>>

\* ============================================================ market rules
\* Quantities are shares, money is in fen (1/100 yuan).
Stocks == {"600000"}
ShanghaiStocks == {"600000"}
\* Latest stock_quotes row of every stock: close_price and prev_close.
QuoteClose == 1000
QuotePrevClose == 1000
\* current_cash of every agent at the start.
InitCash == 250000
\* Decisions the LLM returns per cycle, at most.
MaxDecisions == 2

NoPos == [exists |-> FALSE, shares |-> 0, avg_cost |-> 0, buy_today |-> FALSE]
HeldPos == [exists |-> TRUE, shares |-> 200, avg_cost |-> 1000, buy_today |-> FALSE]

Max(a, b) == IF a >= b THEN a ELSE b
Abs(x) == IF x >= 0 THEN x ELSE 0 - x

\* num/den rounded to the nearest integer, ties to the even one.
RoundHalfEven(num, den) ==
    LET q == num \div den
        r == num % den
    IN IF 2 * r < den THEN q
       ELSE IF 2 * r > den THEN q + 1
       ELSE IF q % 2 = 0 THEN q ELSE q + 1

\* Fee schedule: commission max(5.00, 0.0003 n), stamp tax 0.0005 n on sells,
\* transfer fee 0.00001 n (min 1.00) on Shanghai symbols.
Commission(notional) == Max(500, RoundHalfEven(3 * notional, 10000))
StampTax(side, notional) ==
    IF side = "sell" THEN RoundHalfEven(5 * notional, 10000) ELSE 0
TransferFee(stock, notional) ==
    IF stock \in ShanghaiStocks THEN Max(100, RoundHalfEven(notional, 100000)) ELSE 0
Fees(side, stock, notional) ==
    Commission(notional) + StampTax(side, notional) + TransferFee(stock, notional)

\* OrderProcessor.process_order(order, portfolio, prev_close) with
\* check_trading_time=False: the validation chain and, when it passes, the
\* settlement on the in-memory portfolio.
ProcessOrder(side, stock, quantity, price, prev_close, cash, pos) ==
    LET qty == IF side = "buy" THEN (quantity \div 100) * 100 ELSE quantity
        notional == qty * price
        fees == Fees(side, stock, notional)
        rejected(why) == [ok |-> FALSE, reject |-> why, qty |-> qty, fees |-> 0,
                          cash |-> cash, pos |-> pos]
    IN IF side = "buy" /\ qty = 0 THEN rejected("LOT_SIZE_ZERO")
       ELSE IF 10 * Abs(price - prev_close) > prev_close
            THEN rejected("PRICE_OUT_OF_BAND")
       ELSE IF side = "sell" /\ (~pos.exists \/ pos.buy_today)
            THEN rejected("T1_VIOLATION")
       ELSE IF side = "sell" /\ qty > pos.shares
            THEN rejected("INSUFFICIENT_SHARES")
       ELSE IF side = "buy" /\ cash < notional + fees
            THEN rejected("INSUFFICIENT_CASH")
       ELSE IF side = "sell" /\ notional - fees < 0
            THEN rejected("FEES_EXCEED_PROCEEDS")
       ELSE IF side = "buy"
            THEN [ok |-> TRUE, reject |-> "none", qty |-> qty, fees |-> fees,
                  cash |-> cash - (notional + fees),
                  pos |-> [exists |-> TRUE, shares |-> pos.shares + qty,
                           avg_cost |-> (pos.shares * pos.avg_cost + notional + fees)
                                            \div (pos.shares + qty),
                           buy_today |-> TRUE]]
       ELSE [ok |-> TRUE, reject |-> "none", qty |-> qty, fees |-> fees,
             cash |-> cash + (notional - fees),
             pos |-> IF pos.shares = qty THEN NoPos
                     ELSE [pos EXCEPT !.shares = pos.shares - qty]]

\* ========================================================= decision cycle
AgentStatuses == {"active", "paused", "deleted"}
\* The status that stands for an agent_id of which model_agents has no row.
NoRow == "absent"
\* A field the request body leaves out (None).
NoField == "None"
\* "agent is None or agent.status == AgentStatus.DELETED"
NotFound(row) == row.status \in {NoRow, "deleted"}
\* agent.provider_id and the llm_providers row it names:
\* "unset" (no provider_id), "missing" (no row), "disabled" (is_active false), "ok".
ProviderStates == {"unset", "missing", "disabled", "ok"}
TriggerKinds == {"manual", "sched"}

NoDecision == [kind |-> "none", stock |-> "", quantity |-> 0, price |-> 0]
\* TradingDecision values the parser can return; price 0 stands for None.
Decisions ==
    [kind : {"hold", "wait"}, stock : {""}, quantity : {0}, price : {0}]
    \cup [kind : {"buy"}, stock : {"600000"}, quantity : {0, 100, 150}, price : {0, 1105}]
    \cup [kind : {"buy"}, stock : {"", "000001"}, quantity : {100}, price : {0}]
    \cup [kind : {"sell"}, stock : {"600000"}, quantity : {100, 300}, price : {0}]

NoResp == [success |-> FALSE, error |-> "pending", executed |-> 0, http |-> 0]
\* Status of the HTTP response that carries a returned TriggerDecisionResponse;
\* the scheduler's trigger_agent_decision returns a dict to its caller.
HttpStatus(kind) == IF kind = "manual" THEN 200 ELSE 0
IdleReq ==
    [pc |-> "idle", kind |-> "none", agent |-> "none", attempt |-> 0,
     acquired |-> FALSE, blockedBy |-> NoTok, released |-> "no", outcome |-> "none",
     snap |-> "none", snapProvider |-> "none", cash |-> 0, pos |-> [s \in Stocks |-> NoPos],
     resultOk |-> FALSE, resultErr |-> "none", nDec |-> 0, idx |-> 0, llmLogId |-> 0,
     executed |-> 0, cur |-> NoDecision, curQty |-> 0, curFees |-> 0,
     last |-> "none", logged |-> "none", dlog |-> "none", resp |-> NoResp]

\* lock = agent_decision_lock(agent_id); lock.acquire_async(blocking=False):
\* the SET NX attempts a trigger makes.
MutDecisionLockAttempts == AcquireAttempts(DefaultRetryTimes, TRUE)
DecisionLockAttempts == AcquireAttempts(DecisionRetryTimes, FALSE)

\* The finally clause of a trigger: lock.release().
ReleaseOf(r) == LuaRelease(redis, req[r].agent, r)
ReleasedAs(r) == IF LuaReleaseOk(redis, req[r].agent, r) THEN "ok" ELSE "noop"

\* Locals are dropped when the invocation returns.
Returned(q, resp, released) ==
    [IdleReq EXCEPT !.pc = "done", !.resp = resp, !.released = released,
                    !.kind = q.kind, !.agent = q.agent, !.attempt = q.attempt,
                    !.acquired = q.acquired, !.blockedBy = q.blockedBy,
                    !.outcome = q.outcome, !.logged = q.logged]

\* "if not acquired": the busy result, returned before the try block.
MutBusyRunsCycle(q) == [q EXCEPT !.pc = "load"]
Busy(q) ==
    Returned(q, [success |-> FALSE, error |-> "busy", executed |-> 0,
                 http |-> HttpStatus(q.kind)], "no")

\* trigger_decision / trigger_agent_decision, up to the lock: one SET NX
\* attempt of acquire_async, then either the cycle or the busy result.
ReqTrigger(r, a, kind) ==
    /\ \/ req[r].pc = "idle"
       \/ req[r].pc = "acq_sleep" /\ a = req[r].agent /\ kind = req[r].kind
    /\ LET got == SetNxOk(redis, a)
           attempt == req[r].attempt + 1
           more == attempt < DecisionLockAttempts
           q == [req[r] EXCEPT !.kind = kind, !.agent = a, !.attempt = attempt,
                               !.blockedBy = IF got THEN NoTok ELSE redis[a].val]
       IN /\ redis' = SetNx(redis, a, r, DecisionTtl)
          /\ req' = [req EXCEPT ![r] =
                IF got THEN [q EXCEPT !.pc = "load", !.acquired = TRUE]
                ELSE IF more THEN [q EXCEPT !.pc = "acq_sleep"]
                ELSE Busy(q)]
    /\ UNCHANGED <<lk, lkLast, dbVars, taskVars, quoteVars, svcVars>>

\* str(e) of the exceptions followed, as characters. "bad protocol" is the
\* ValueError of LLMProtocol(provider.protocol) in the client construction, "http404" and "http400" are the HTTPExceptions of
\* the agent checks (status code and detail), the others are raised in the
\* order loop.
LoopMessages == {"API down", "capital low", "bad value"}
MessageText(msg) ==
    CASE msg = "bad protocol" -> <<"'", "x", "'", " ", "i", "s", " ", "n", "o", "t", " ",
                                  "a", " ", "v", "a", "l", "i", "d", " ",
                                  "L", "L", "M", "P", "r", "o", "t", "o", "c", "o", "l">>
      [] msg = "http404" -> <<"4", "0", "4", ":", " ", "A", "G", "E", "N", "T", "_", "N", "O", "T", "_", "F", "O", "U", "N", "D">>
      [] msg = "http400" -> <<"4", "0", "0", ":", " ", "A", "G", "E", "N", "T", "_", "P", "A", "U", "S", "E", "D">>
      [] msg = "API down" -> <<"A", "P", "I", " ", "d", "o", "w", "n">>
      [] msg = "capital low" -> <<"c", "a", "p", "i", "t", "a", "l", " ", "l", "o", "w">>
      [] msg = "bad value" -> <<"b", "a", "d", " ", "v", "a", "l", "u", "e">>

\* error_msg.lower()
Lower(text) ==
    [i \in DOMAIN text |->
        CASE text[i] = "A" -> "a"
          [] text[i] = "B" -> "b"
          [] text[i] = "C" -> "c"
          [] text[i] = "D" -> "d"
          [] text[i] = "E" -> "e"
          [] text[i] = "F" -> "f"
          [] text[i] = "G" -> "g"
          [] text[i] = "H" -> "h"
          [] text[i] = "I" -> "i"
          [] text[i] = "J" -> "j"
          [] text[i] = "K" -> "k"
          [] text[i] = "L" -> "l"
          [] text[i] = "M" -> "m"
          [] text[i] = "N" -> "n"
          [] text[i] = "O" -> "o"
          [] text[i] = "P" -> "p"
          [] text[i] = "Q" -> "q"
          [] text[i] = "R" -> "r"
          [] text[i] = "S" -> "s"
          [] text[i] = "T" -> "t"
          [] text[i] = "U" -> "u"
          [] text[i] = "V" -> "v"
          [] text[i] = "W" -> "w"
          [] text[i] = "X" -> "x"
          [] text[i] = "Y" -> "y"
          [] text[i] = "Z" -> "z"
          [] OTHER -> text[i]]

\* "keyword in error_msg.lower()"
Contains(text, keyword) ==
    \E i \in 1..(Len(text) - Len(keyword) + 1) :
        SubSeq(text, i, i + Len(keyword) - 1) = keyword

Keywords ==
    {<<"t", "i", "m", "e", "o", "u", "t">>,
     <<"c", "o", "n", "n", "e", "c", "t", "i", "o", "n">>,
     <<"a", "p", "i">>,
     <<"l", "l", "m">>,
     <<"r", "e", "q", "u", "e", "s", "t">>,
     <<"r", "e", "s", "p", "o", "n", "s", "e">>,
     <<"h", "t", "t", "p">>}

IsApiError(msg) == \E keyword \in Keywords : Contains(Lower(MessageText(msg)), keyword)

\* The except clause of trigger_decision: a decision_logs row, api_error when
\* the message holds a keyword, and the failure response; then the finally.
\* The row is written in a try of its own: when db.add or db.commit raises,
\* the inner except logs that and no row is written. dlog keeps which of the
\* two happened. trigger_agent_decision only returns the failure.
MutAlwaysNoTrade(kw) == "no_trade"
DecisionLogStatus(kw) == IF kw THEN "api_error" ELSE "no_trade"

ExceptExit(r, err, kw) ==
    /\ \E written \in BOOLEAN :
          /\ req[r].kind # "manual" => written
          /\ decisionLogs' =
                IF req[r].kind = "manual" /\ written
                THEN Append(decisionLogs, [agent |-> req[r].agent, req |-> r,
                                           status |-> DecisionLogStatus(kw)])
                ELSE decisionLogs
          /\ req' = [req EXCEPT ![r] =
                [Returned(req[r], [success |-> FALSE, error |-> err, executed |-> 0,
                                   http |-> HttpStatus(req[r].kind)],
                          ReleasedAs(r))
                 EXCEPT !.dlog = IF req[r].kind # "manual" THEN "none"
                                 ELSE IF written THEN "saved" ELSE "failed"]]
    /\ redis' = ReleaseOf(r)

\* An early return of the first try block. trigger_decision runs its finally;
\* in trigger_agent_decision the block's only clause is the except of line 519
\* and the finally belongs to the later try of line 567, so the lock stays.
EarlyReleases(kind) == kind = "manual"

EarlyExit(r, err) ==
    /\ redis' = IF EarlyReleases(req[r].kind) THEN ReleaseOf(r) ELSE redis
    /\ req' = [req EXCEPT ![r] =
          Returned(req[r], [success |-> FALSE, error |-> err, executed |-> 0,
                            http |-> HttpStatus(req[r].kind)],
                   IF EarlyReleases(req[r].kind) THEN ReleasedAs(r) ELSE "no")]
    /\ UNCHANGED decisionLogs

\* The session a trigger works on. trigger_decision has the session of its
\* request; trigger_agent_decision is handed the session of its caller, and
\* trigger_all_decisions hands the one session of its request to every
\* trigger it gathers.
SharedDb(q) == q.kind = "sched"

\* The session after a flush that raised and before any rollback: every
\* statement on it raises (PendingRollbackError) until rollback() is called.
Inactive(q) == SharedDb(q) /\ fan.db = "inactive"

\* From the lock to the await of execute_decision_cycle: the agent and provider
\* checks, the LLM client, the template, the portfolio and the market data.
\* clientErr: building the client raises (an unknown protocol). On an inactive
\* session the first query raises inside the first try block, whose except
\* clause returns the failure.
LoadStep(r, clientErr) ==
    /\ req[r].pc = "load"
    /\ LET a == req[r].agent
           row == agents[a]
           manual == req[r].kind = "manual"
       IN IF Inactive(req[r]) THEN EarlyExit(r, "pending_rollback")
          ELSE IF NotFound(row)
          THEN IF manual THEN ExceptExit(r, "http404", IsApiError("http404"))
               ELSE EarlyExit(r, "not_found")
          ELSE IF row.status = "paused"
          THEN IF manual THEN ExceptExit(r, "http400", IsApiError("http400"))
               ELSE EarlyExit(r, "paused")
          ELSE IF row.provider = "unset" THEN EarlyExit(r, "no_provider")
          ELSE IF row.provider = "missing" THEN EarlyExit(r, "provider_missing")
          ELSE IF row.provider = "disabled" THEN EarlyExit(r, "provider_disabled")
          ELSE IF clientErr
          THEN IF manual THEN ExceptExit(r, "bad protocol", IsApiError("bad protocol"))
               ELSE EarlyExit(r, "client_init")
          ELSE /\ req' = [req EXCEPT ![r].pc = "llm",
                                     ![r].snap = row.status,
                                     ![r].snapProvider = row.provider,
                                     ![r].cash = row.cash,
                                     ![r].pos = positions[a]]
               /\ UNCHANGED <<redis, decisionLogs>>
    /\ UNCHANGED <<lk, lkLast, agents, positions, orders, txs, llmLogs, taskVars, quoteVars>>

\* The module-level manager before any trigger.
NoManager == [llm_client |-> "none"]

\* No trigger_all_decisions call: its place, the agents it gathers a trigger
\* for, its "results" list, and the state of a session triggers share.
NoFan == [pc |-> "idle", targets |-> {}, results |-> <<>>, db |-> "ok"]

\* The step on the module-level manager: "manager.llm_client = llm_client" runs
\* once the client is built, so on every path that reaches the cycle.
ReqLoad(r, clientErr) ==
    /\ LoadStep(r, clientErr)
    /\ manager' = IF req'[r].pc = "llm" THEN [llm_client |-> r] ELSE manager
    /\ UNCHANGED <<tplVars, stockLast, market, fan, cacheVars>>

\* ModelAgentManager.execute_decision_cycle as the trigger sees it: one chat
\* call, logged through the callback (which keeps the new row's id), then the
\* parsed decisions or success=false with the error.
CycleOutcomes == {"ok", "api_error", "parse_error"}

\* "if result.success and result.decisions": whether the order loop runs.
MutRunsLoopAlways(ok, n) == TRUE
RunsLoop(ok, n) == ok /\ n > 0

\* What log_llm_request does with the row: committed; db.add or db.flush
\* raises before the id is read; db.commit raises after it was read.
LogOutcomes == {"saved", "flush_failed", "commit_failed"}

\* The ending of the callback of the client trigger c built, on c's session:
\* on an inactive session db.flush raises whatever the database would do.
LogEnding(c, logged) == IF Inactive(req[c]) THEN "pending_rollback" ELSE logged
\* The endings that leave no row: the id is read after the flush.
NoRowEndings == {"flush_failed", "pending_rollback"}

\* The clients the cycle of a trigger may call. execute_decision_cycle reads
\* manager.llm_client before its first suspension or after one: the client its
\* own trigger assigned just before the await, or the one the manager holds
\* when the call is made.
CallClient(own, current) == {own, current}

\* The LLM call of cycle r made with the client that trigger c built: the
\* client's agent_id tag and its log callback, which writes the slot
\* latest_llm_log_id of c. A rolled back row keeps its id and is no row.
\* logged keeps the ending of the callback.
LlmStep(r, outcome, n, c, logged) ==
    /\ req[r].pc = "llm"
    /\ n = 0 \/ outcome = "ok"
    /\ llmLogs' =
          IF logged \in NoRowEndings THEN llmLogs
          ELSE Append(llmLogs,
                 [agent |-> req[c].agent, req |-> r,
                  status |-> IF logged = "commit_failed" THEN "rolled_back"
                             ELSE IF outcome = "api_error" THEN "error"
                             ELSE "success"])
    /\ req' = [[req EXCEPT ![c].llmLogId = IF logged \in NoRowEndings THEN @
                                           ELSE Len(llmLogs) + 1]
               EXCEPT
          ![r].logged = logged,
          ![r].outcome = outcome,
          ![r].resultOk = (outcome = "ok"),
          ![r].resultErr = IF outcome = "ok" THEN "none" ELSE outcome,
          ![r].nDec = n,
          ![r].idx = IF RunsLoop(outcome = "ok", n) THEN 1 ELSE 0,
          ![r].pc = IF RunsLoop(outcome = "ok", n) THEN "decide" ELSE "finish"]
    /\ UNCHANGED <<lockVars, agents, positions, orders, txs, decisionLogs, taskVars, quoteVars>>

\* The call through the shared manager, with the endings of the log callback.
ReqLlm(r, outcome, n, logged) ==
    /\ \E c \in CallClient(r, manager.llm_client) :
          /\ LlmStep(r, outcome, n, c, LogEnding(c, logged))
          \* "except Exception: db.rollback()" of the callback
          /\ fan' = IF SharedDb(req[c]) /\ LogEnding(c, logged) # "saved"
                    THEN [fan EXCEPT !.db = "ok"] ELSE fan
    /\ UNCHANGED <<tplVars, stockLast, market, manager, cacheVars>>

IsHold(d) == d.kind \in {"hold", "wait"}

\* The price and prev_close the trigger hands to the processor: the decision's
\* price or the latest close; prev_close of the latest quote or that price.
HasQuote(stock) == stock \in Stocks
OrderPrice(d) ==
    IF d.price # 0 THEN d.price ELSE IF HasQuote(d.stock) THEN QuoteClose ELSE 0
OrderPrevClose(d) == IF HasQuote(d.stock) THEN QuotePrevClose ELSE OrderPrice(d)

\* "if not stock_code or not quantity or quantity <= 0 or price <= 0: continue"
Malformed(d) == d.stock = "" \/ d.quantity <= 0 \/ OrderPrice(d) <= 0

\* Where the loop goes after decision idx is dealt with.
MutSkipEndsLoop(q) ==
    IF q.idx < q.nDec /\ q.last # "skipped"
    THEN [q EXCEPT !.pc = "decide", !.idx = q.idx + 1]
    ELSE [q EXCEPT !.pc = IF q.executed > 0 THEN "cash" ELSE "finish"]
MutCashAfterEachFill(q) ==
    IF q.executed > 0 /\ q.last = "filled"
    THEN [q EXCEPT !.pc = "cash"]
    ELSE IF q.idx < q.nDec THEN [q EXCEPT !.pc = "decide", !.idx = q.idx + 1]
    ELSE [q EXCEPT !.pc = "finish"]
MutAfterDecisionStops(q) == [q EXCEPT !.pc = IF q.executed > 0 THEN "cash" ELSE "finish"]
AfterDecision(q) ==
    IF q.idx < q.nDec THEN [q EXCEPT !.pc = "decide", !.idx = q.idx + 1]
    ELSE [q EXCEPT !.pc = IF q.executed > 0 THEN "cash" ELSE "finish"]

HoldOrder(r, q) ==
    [id |-> <<r, q.idx>>, agent |-> q.agent, side |-> "hold", stock |-> "",
     quantity |-> 0, price |-> 0, status |-> "filled", reject |-> "none",
     log |-> q.llmLogId]
MutHoldTxCharged(r, q) ==
    [order |-> <<r, q.idx>>, agent |-> q.agent, side |-> "hold", stock |-> "",
     quantity |-> 0, price |-> 0, fees |-> Fees("hold", "", 0)]
HoldTx(r, q) ==
    [order |-> <<r, q.idx>>, agent |-> q.agent, side |-> "hold", stock |-> "",
     quantity |-> 0, price |-> 0, fees |-> -1]

\* What the trigger persists for an order the processor rejected: nothing
\* (a warning is logged).
RejectedOrderRows(r, q, d, res) == {}

\* One pass of "for decision in result.decisions" up to its first commit:
\* the hold rows, a skipped decision, a rejected order, or the filled order's
\* row. raise: the message of the exception the pass raises instead, or "none".
ReqDecide(r, d, raise) ==
    /\ req[r].pc = "decide"
    /\ LET q == req[r]
           a == q.agent
       IN IF raise # "none"
          THEN /\ ExceptExit(r, raise, IsApiError(raise))
               /\ UNCHANGED <<orders, txs>>
          ELSE IF IsHold(d)
          THEN /\ orders' = orders \cup {HoldOrder(r, q)}
               /\ txs' = txs \cup {HoldTx(r, q)}
               /\ req' = [req EXCEPT ![r] = AfterDecision([q EXCEPT !.last = "hold"])]
               /\ UNCHANGED <<redis, decisionLogs>>
          ELSE IF d.kind \notin {"buy", "sell"} \/ Malformed(d)
          THEN /\ req' = [req EXCEPT ![r] =
                     AfterDecision([q EXCEPT !.cur = d, !.last = "skipped"])]
               /\ UNCHANGED <<redis, decisionLogs, orders, txs>>
          ELSE LET res == ProcessOrder(d.kind, d.stock, d.quantity, OrderPrice(d),
                                       OrderPrevClose(d), q.cash, q.pos[d.stock])
               IN IF res.ok
                  THEN /\ orders' = orders \cup
                            {[id |-> <<r, q.idx>>, agent |-> a, side |-> d.kind,
                              stock |-> d.stock, quantity |-> res.qty,
                              price |-> OrderPrice(d), status |-> "filled",
                              reject |-> "none", log |-> q.llmLogId]}
                       /\ req' = [req EXCEPT ![r] =
                             [q EXCEPT !.pc = "save_tx", !.cur = d,
                                       !.curQty = res.qty, !.curFees = res.fees,
                                       !.cash = res.cash,
                                       !.pos = [q.pos EXCEPT ![d.stock] = res.pos],
                                       !.last = "filled"]]
                       /\ UNCHANGED <<redis, decisionLogs, txs>>
                  ELSE /\ orders' = orders \cup RejectedOrderRows(r, q, d, res)
                       /\ req' = [req EXCEPT ![r] =
                             AfterDecision([q EXCEPT !.last = res.reject])]
                       /\ UNCHANGED <<redis, decisionLogs, txs>>
    /\ UNCHANGED <<lk, lkLast, agents, positions, llmLogs, taskVars, quoteVars, svcVars>>

\* The places of a cycle where the next statement is a repository write.
WritePcs == {"decide", "save_tx", "pos_delete", "pos_save", "cash", "agent_save"}

\* A repository write of trigger_agent_decision raises (a database error): the
\* write leaves nothing, "except Exception" returns the failure without a
\* rollback and the finally releases the lock. broken: the error came from
\* the flush, which leaves the session inactive.
ReqWriteRaises(r, broken) ==
    /\ req[r].pc \in WritePcs
    /\ req[r].kind = "sched"
    /\ ExceptExit(r, "db_error", FALSE)
    /\ fan' = [fan EXCEPT !.db = IF broken THEN "inactive" ELSE @]
    /\ UNCHANGED <<lk, lkLast, agents, positions, orders, txs, llmLogs, taskVars, quoteVars,
                   tplVars, stockLast, market, manager, cacheVars>>

\* tx_repo.save(order_result.transaction)
ReqSaveTx(r) ==
    /\ req[r].pc = "save_tx"
    /\ LET q == req[r]
       IN txs' = txs \cup
             {[order |-> <<r, q.idx>>, agent |-> q.agent, side |-> q.cur.kind,
               stock |-> q.cur.stock, quantity |-> q.curQty,
               price |-> OrderPrice(q.cur), fees |-> q.curFees]}
    /\ req' = [req EXCEPT ![r].pc = "pos_delete"]
    /\ UNCHANGED <<lockVars, agents, positions, orders, llmLogs, decisionLogs, taskVars, quoteVars, svcVars>>

\* PositionRepository.delete: the rows of (agent_id, stock_code) are removed.
MutDeleteKeepsRow(tbl, a, s) == tbl
DeleteRow(tbl, a, s) == [tbl EXCEPT ![a][s] = NoPos]

\* position_repo.delete(agent_id, stock_code)
ReqPosDelete(r) ==
    /\ req[r].pc = "pos_delete"
    /\ positions' = DeleteRow(positions, req[r].agent, req[r].cur.stock)
    /\ req' = [req EXCEPT ![r].pc = "pos_save"]
    /\ UNCHANGED <<lockVars, agents, orders, txs, llmLogs, decisionLogs, taskVars, quoteVars, svcVars>>

\* "for pos in portfolio.positions: if pos.stock_code == stock_code and
\* pos.shares > 0: position_repo.save(agent_id, pos)", executed_orders.append.
ReqPosSave(r) ==
    /\ req[r].pc = "pos_save"
    /\ LET q == req[r]
           pos == q.pos[q.cur.stock]
       IN /\ positions' =
                IF pos.exists /\ pos.shares > 0
                THEN [positions EXCEPT ![q.agent][q.cur.stock] = pos]
                ELSE positions
          /\ req' = [req EXCEPT ![r] =
                AfterDecision([q EXCEPT !.executed = q.executed + 1,
                                        !.cur = NoDecision, !.curQty = 0,
                                        !.curFees = 0])]
    /\ UNCHANGED <<lockVars, agents, orders, txs, llmLogs, decisionLogs, taskVars, quoteVars, svcVars>>

\* portfolio_repo.update_cash(agent_id, portfolio.cash)
ReqCashWrite(r) ==
    /\ req[r].pc = "cash"
    /\ agents' = [agents EXCEPT ![req[r].agent].cash = req[r].cash]
    /\ req' = [req EXCEPT ![r].pc = "agent_save"]
    /\ UNCHANGED <<lockVars, positions, orders, txs, llmLogs, decisionLogs, taskVars, quoteVars, svcVars>>

\* agent.current_cash = portfolio.cash; repo.save(agent): the row takes the
\* fields of the entity read at the start of the cycle.
ReqAgentSave(r) ==
    /\ req[r].pc = "agent_save"
    /\ agents' = [agents EXCEPT ![req[r].agent].cash = req[r].cash,
                                ![req[r].agent].status = req[r].snap,
                                ![req[r].agent].provider = req[r].snapProvider]
    /\ req' = [req EXCEPT ![r].pc = "finish"]
    /\ UNCHANGED <<lockVars, positions, orders, txs, llmLogs, decisionLogs, taskVars, quoteVars, svcVars>>

\* The response of the normal path, then the finally clause.
ReqFinish(r) ==
    /\ req[r].pc = "finish"
    /\ redis' = ReleaseOf(r)
    /\ req' = [req EXCEPT ![r] =
          Returned(req[r], [success |-> req[r].resultOk, error |-> req[r].resultErr,
                            executed |-> req[r].executed,
                            http |-> HttpStatus(req[r].kind)],
                   ReleasedAs(r))]
    /\ UNCHANGED <<lk, lkLast, dbVars, taskVars, quoteVars, svcVars>>

\* The decision lock's TTL runs while cycles work.
ReqTick(k) == Tick(k, DecisionTickSeconds) /\ UNCHANGED <<lk, lkLast, dbVars, req, taskVars, quoteVars, svcVars>>

\* Two DistributedLock instances on the same key with the default ttl: i1 with
\* the default retry_times, i2 with retry_times=1 as agent_decision_lock sets.
IdleLk == [i \in Insts |->
             [key |-> "a1",
              retry_times |-> IF i = "i1" THEN DefaultRetryTimes ELSE DecisionRetryTimes,
              ttl |-> DefaultTtl, pc |-> "idle", attempt |-> 0, acquired |-> FALSE,
              tries |-> <<>>, sleeps |-> 0]]

\* ========================================================== task executor
\* Runs of execute_task a behaviour makes, at most.
MaxRuns == 1

TaskTypes == {"agent_decision", "quote_sync", "market_refresh"}
RefreshTypes == {"sentiment", "indices", "hot_stocks"}

\* task.agent_ids, a JSON column: a list of ids (its members are what the code
\* looks at; the empty list is falsy), or a value that is not a list: a
\* number other than 0 (NotAList), a falsy scalar (0, null, the empty string)
\* or the string "all", of which "all" is a substring.
AgentIdLists ==
    {[list |-> TRUE, ids |-> s, falsy |-> s = {}] : s \in SUBSET ({"all"} \cup Agents)}
NotAList == [list |-> FALSE, ids |-> {}, falsy |-> FALSE]
FalsyScalar == [list |-> FALSE, ids |-> {}, falsy |-> TRUE]
AllString == [list |-> FALSE, ids |-> {"all"}, falsy |-> FALSE]
AllAgentIds == [list |-> TRUE, ids |-> {"all"}, falsy |-> FALSE]
\* config["refresh_types"]: absent, or a list of types.
NoRefreshTypes == [given |-> FALSE, types |-> {}]
RefreshTypeLists ==
    {NoRefreshTypes} \cup
    [given : {TRUE}, types : {{}, {"sentiment"}, {"indices", "hot_stocks"}, {"other"}}]

\* The system_tasks rows a run can find.
TaskConfigs ==
    [status : {"active", "paused"}, trading_day_only : BOOLEAN,
     task_type : {"agent_decision"}, agent_ids : AgentIdLists \cup {NotAList, FalsyScalar, AllString},
     refresh_types : {NoRefreshTypes}]
    \cup [status : {"active", "paused"}, trading_day_only : BOOLEAN,
          task_type : {"quote_sync"}, agent_ids : {AllAgentIds},
          refresh_types : {NoRefreshTypes}]
    \cup [status : {"active", "paused"}, trading_day_only : BOOLEAN,
          task_type : {"market_refresh"}, agent_ids : {AllAgentIds},
          refresh_types : RefreshTypeLists]

IdleTask == [status |-> "active", trading_day_only |-> FALSE,
             task_type |-> "agent_decision", agent_ids |-> AllAgentIds,
             refresh_types |-> NoRefreshTypes]

\* now().date(): date.weekday() (0 is Monday) and whether the exchange
\* calendar lists the date as a holiday.
Weekdays == {4, 5}
NoDay == [weekday |-> 0, holiday |-> FALSE]
\* "周一" .. "周日"
WeekdayNames == <<"Mon", "Tue", "Wed", "Thu", "Fri", "Sat", "Sun">>

\* is_trading_day(date): a weekday that is not an exchange holiday.
IsTradingDay(day) == day.weekday < 5 /\ ~day.holiday

\* TaskExecutor._should_skip: "任务已暂停" for a paused task, "非交易日（date
\* weekday name）" on a non-trading day of a trading_day_only task.
NoSkip == [skip |-> FALSE, reason |-> "none", weekday |-> "none"]
MutNeverSkip(t, day) == NoSkip
ShouldSkip(t, day) ==
    IF t.status = "paused"
    THEN [skip |-> TRUE, reason |-> "task_paused", weekday |-> "none"]
    ELSE IF t.trading_day_only /\ ~IsTradingDay(day)
    THEN [skip |-> TRUE, reason |-> "non_trading_day",
          weekday |-> WeekdayNames[day.weekday + 1]]
    ELSE NoSkip

\* "agent_ids = task.agent_ids or [\"all\"]"
AgentIdsOrAll(agent_ids) == IF agent_ids.falsy THEN AllAgentIds ELSE agent_ids
\* "\"all\" in agent_ids" raises TypeError on a value that has no members.
InRaises(agent_ids) == ~agent_ids.list /\ "all" \notin agent_ids.ids

ActiveAgents == {a \in Agents : agents[a].status = "active"}

\* The two queries of _execute_agents.
MutResolveListed(ids, active) == IF ids = {"all"} THEN active ELSE ids \cap active
ResolveAgents(ids, active) == IF "all" \in ids THEN active ELSE ids \cap active

\* "failed_count == len(agent_results) and len(agent_results) > 0"
MutAnyFailed(results) ==
    IF \E x \in results : x.status = "failed" THEN "failed" ELSE "success"
OverallStatus(results) ==
    IF results # {} /\ \A x \in results : x.status = "failed"
    THEN "failed" ELSE "success"

NewLog == [status |-> "running", completed |-> FALSE, skip_reason |-> "none",
           skip_weekday |-> "none", error_message |-> "none", agent_results |-> {}]

\* The except clause of execute_task.
MutFailureKeepsRunning(row, msg) == [row EXCEPT !.error_message = msg]
TopLevelFailure(row, msg) ==
    [row EXCEPT !.status = "failed", !.error_message = msg, !.completed = TRUE]

IdleRun == [pc |-> "idle", n |-> 0, log |-> 0, callback |-> FALSE, day |-> NoDay,
            active |-> {}, rows |-> <<>>, pending |-> {}, calling |-> {},
            results |-> {}, messages |-> {}, synced |-> 0, todo |-> <<>>,
            awaiting |-> FALSE]
NoEffects == [callbacks |-> {}, nocallback |-> {}, raised |-> {}, unsuccessful |-> {},
              quote_sync |-> 0, refresh |-> {},
              refreshed |-> {}, refresh_raised |-> FALSE, refresh_text |-> "none"]

\* execute_task up to "self.db.commit()" of the new log row. A task_id without
\* a row raises before anything is written. callback: whether the executor
\* was given a decision callback.
TaskStart(cfg, callback) ==
    /\ run.pc = "idle"
    /\ run.n < MaxRuns
    /\ task' = cfg
    /\ taskLogs' = Append(taskLogs, NewLog)
    /\ run' = [IdleRun EXCEPT !.pc = "check", !.n = run.n + 1,
                              !.log = Len(taskLogs) + 1, !.callback = callback]
    /\ effects' = NoEffects
    /\ UNCHANGED <<lockVars, dbVars, req, quoteVars, svcVars>>

\* The skip check and the skipped row. day: the date, which the check reads
\* for a trading_day_only task that is not paused.
TaskCheck(day) ==
    /\ run.pc = "check"
    /\ (task.status # "paused" /\ task.trading_day_only) \/ day = NoDay
    /\ LET sk == ShouldSkip(task, day)
       IN IF sk.skip
          THEN /\ taskLogs' = [taskLogs EXCEPT ![run.log] =
                     [@ EXCEPT !.status = "skipped", !.skip_reason = sk.reason,
                               !.skip_weekday = sk.weekday, !.completed = TRUE]]
               /\ run' = [run EXCEPT !.pc = "idle", !.day = day]
          ELSE /\ run' = [run EXCEPT !.pc = "dispatch", !.day = day]
               /\ UNCHANGED taskLogs
    /\ UNCHANGED <<lockVars, dbVars, req, quoteVars, svcVars, task, effects>>

\* _execute_agents up to asyncio.gather: the agents the run works on. A value
\* of agent_ids that is a number raises at "\"all\" in agent_ids".
TaskResolve ==
    /\ run.pc = "dispatch"
    /\ task.task_type = "agent_decision"
    /\ LET agent_ids == AgentIdsOrAll(task.agent_ids)
       IN IF InRaises(agent_ids)
          THEN /\ taskLogs' = [taskLogs EXCEPT ![run.log] = TopLevelFailure(@, "exception")]
               /\ run' = [run EXCEPT !.pc = "idle"]
          ELSE LET found == ResolveAgents(agent_ids.ids, ActiveAgents)
               IN /\ run' = [run EXCEPT !.pc = "agents", !.active = ActiveAgents,
                                        !.rows = [a \in found |-> agents[a].status],
                                        !.pending = found]
                  /\ UNCHANGED taskLogs
    /\ UNCHANGED <<lockVars, dbVars, req, quoteVars, svcVars, task, effects>>

\* "asyncio.gather(*tasks, return_exceptions=True)" and the loop after it: the
\* result of every task is kept, whatever the others returned.
Gathered(results, a, status) == results \cup {[agent |-> a, status |-> status]}

\* _execute_single_agent for one of the gathered agents, on the row as the
\* query read it; without a callback the ValueError makes the sub-result failed.
\* cb: the callback returns a cycle result with success true, returns one
\* with success false (agent busy or paused, no provider, LLM or parse
\* error), or raises.
CallbackOutcomes == {"return", "unsuccessful", "raise"}

\* "status" of the dict _execute_single_agent returns.
MutSubStatusByResult(status, callback, cb) ==
    IF status # "active" THEN "skipped"
    ELSE IF ~callback \/ cb # "return" THEN "failed"
    ELSE "success"
SubStatus(status, callback, cb) ==
    IF status # "active" THEN "skipped"
    ELSE IF ~callback THEN "failed"
    ELSE IF cb = "raise" THEN "failed" ELSE "success"

\* "error_message" of that dict: None, or the text of its cause.
SubMessage(status, callback, cb) ==
    IF status # "active" THEN "not_active"
    ELSE IF ~callback THEN "no_callback"
    ELSE IF cb = "raise" THEN "exception" ELSE "None"

\* _execute_single_agent for a gathered agent up to "result = await result":
\* an agent that is not active returns skipped, with no callback set the
\* ValueError is caught and failed returned, otherwise the callback is called
\* and its coroutine awaited, the other gathered agents running meanwhile.
TaskAgent(a) ==
    /\ run.pc = "agents"
    /\ a \in run.pending
    /\ IF run.rows[a] = "active" /\ run.callback
       THEN /\ run' = [run EXCEPT !.pending = @ \ {a}, !.calling = @ \cup {a}]
            /\ effects' = [effects EXCEPT !.callbacks = @ \cup {a}]
       ELSE /\ run' = [run EXCEPT
                         !.pending = @ \ {a},
                         !.results = Gathered(@, a, SubStatus(run.rows[a], run.callback,
                                                              "return")),
                         !.messages = @ \cup
                            {[agent |-> a,
                              error_message |-> SubMessage(run.rows[a], run.callback,
                                                           "return")]}]
            /\ effects' = IF run.rows[a] = "active"
                          THEN [effects EXCEPT !.nocallback = @ \cup {a}]
                          ELSE effects
    /\ UNCHANGED <<lockVars, dbVars, req, quoteVars, svcVars, task, taskLogs>>

\* The rest of _execute_single_agent: the awaited callback returns or raises
\* and the sub-result is built.
TaskAgentReturn(a, cb) ==
    /\ run.pc = "agents"
    /\ a \in run.calling
    /\ run' = [run EXCEPT
                 !.calling = @ \ {a},
                 !.results = Gathered(@, a, SubStatus("active", TRUE, cb)),
                 !.messages = @ \cup
                    {[agent |-> a, error_message |-> SubMessage("active", TRUE, cb)]}]
    /\ effects' = [effects EXCEPT
                     !.raised = IF cb = "raise" THEN @ \cup {a} ELSE @,
                     !.unsuccessful = IF cb = "unsuccessful" THEN @ \cup {a} ELSE @]
    /\ UNCHANGED <<lockVars, dbVars, req, quoteVars, svcVars, task, taskLogs>>

\* set_decision_callback on the executor of the run in progress.
SetDecisionCallback(callback) ==
    /\ run.pc # "idle"
    /\ run.callback # callback
    /\ run' = [run EXCEPT !.callback = callback]
    /\ UNCHANGED <<lockVars, dbVars, req, quoteVars, svcVars, task, taskLogs, effects>>

\* After the gather: agent_results and the overall status.
TaskAggregate ==
    /\ run.pc = "agents"
    /\ run.pending = {} /\ run.calling = {}
    /\ LET st == OverallStatus(run.results)
       IN taskLogs' = [taskLogs EXCEPT ![run.log] =
             [@ EXCEPT !.agent_results = run.results, !.status = st,
                       !.error_message = IF st = "failed" THEN "all_agents_failed"
                                         ELSE "none",
                       !.completed = TRUE]]
    /\ run' = [run EXCEPT !.pc = "idle"]
    /\ UNCHANGED <<lockVars, dbVars, req, quoteVars, svcVars, task, effects>>

\* pause_agent / resume_agent: repo.update_status on an agent that is there
\* and not deleted.
PauseAgent(a) ==
    /\ ~NotFound(agents[a])
    /\ agents' = [agents EXCEPT ![a].status = "paused"]
    /\ UNCHANGED <<lockVars, positions, orders, txs, llmLogs, decisionLogs, req, taskVars, quoteVars, svcVars>>

ResumeAgent(a) ==
    /\ ~NotFound(agents[a])
    /\ agents' = [agents EXCEPT ![a].status = "active"]
    /\ UNCHANGED <<lockVars, positions, orders, txs, llmLogs, decisionLogs, req, taskVars, quoteVars, svcVars>>

\* delete_agent: 404 for a deleted agent, else ModelAgentRepository.delete,
\* an UPDATE of the status column.
DeleteAgent(a) ==
    /\ ~NotFound(agents[a])
    /\ agents' = [agents EXCEPT ![a].status = "deleted"]
    /\ UNCHANGED <<lockVars, positions, orders, txs, llmLogs, decisionLogs, req, taskVars, quoteVars, svcVars>>

\* update_agent: 404 for a missing or deleted agent, else repo.save of the
\* entity just read with the fields the request gives; status and provider_id
\* are the fields of the request the model keeps.
UpdateAgent(a, status, provider_id) ==
    /\ ~NotFound(agents[a])
    /\ agents' = [agents EXCEPT
                    ![a].status = IF status # NoField THEN status ELSE @,
                    ![a].provider = IF provider_id # NoField THEN provider_id ELSE @]
    /\ UNCHANGED <<lockVars, positions, orders, txs, llmLogs, decisionLogs, req, taskVars, quoteVars, svcVars>>

\* create_agent: repo.save of a new entity under a fresh uuid4, active and
\* with current_cash = initial_cash; "provider_id or \"\"".
CreateAgent(a, provider_id) ==
    /\ agents[a].status = NoRow
    /\ agents' = [agents EXCEPT ![a] = [status |-> "active", cash |-> InitCash,
                                        provider |-> provider_id]]
    /\ UNCHANGED <<lockVars, positions, orders, txs, llmLogs, decisionLogs, req, taskVars, quoteVars, svcVars>>

\* ============================================== portfolio repositories
\* Repository methods called on their own, outside a decision cycle.
\* Amount of an add_cash call (either sign) and the largest balance followed.
CashStep == 300000
CashCap == 300000
CashDeltas == {0 - CashStep, CashStep}
CashTargets == {0 - CashStep, 0}
\* Position entities handed to PositionRepository.save.
SaveShares == {-200, 0, 100}
SavedPositions ==
    [exists : {TRUE}, shares : SaveShares, avg_cost : {QuoteClose}, buy_today : {FALSE}]

\* PortfolioRepository.update_cash(agent_id, new_cash)
RepoUpdateCash(a, new_cash) ==
    /\ agents' = [agents EXCEPT ![a].cash = new_cash]
    /\ UNCHANGED <<lockVars, positions, orders, txs, llmLogs, decisionLogs, req, taskVars, quoteVars, svcVars>>

\* PortfolioRepository.add_cash(agent_id, delta)
RepoAddCash(a, delta) ==
    /\ Abs(agents[a].cash + delta) <= CashCap
    /\ agents' = [agents EXCEPT ![a].cash = agents[a].cash + delta]
    /\ UNCHANGED <<lockVars, positions, orders, txs, llmLogs, decisionLogs, req, taskVars, quoteVars, svcVars>>

\* status of an orders row.
OrderStatuses == {"pending", "filled", "rejected"}

\* OrderRepository.update_status(order_id, status, reject_reason): the row of
\* that id takes the status, and the reject_reason when one is given ("" for
\* none); no row of that id changes nothing.
RepoOrderUpdateStatus(order_id, status, reject_reason) ==
    /\ orders' = {IF o.id = order_id
                  THEN [o EXCEPT !.status = status,
                                 !.reject = IF reject_reason # "" THEN reject_reason ELSE @]
                  ELSE o : o \in orders}
    /\ UNCHANGED <<lockVars, agents, positions, txs, llmLogs, decisionLogs, req, taskVars,
                   quoteVars, svcVars>>

\* PositionRepository.save(agent_id, position): the row of (agent_id,
\* stock_code) takes the entity's fields, or a new row is added.
RepoPositionSave(a, s, pos) ==
    /\ positions' = [positions EXCEPT ![a][s] = pos]
    /\ UNCHANGED <<lockVars, agents, orders, txs, llmLogs, decisionLogs, req, taskVars, quoteVars, svcVars>>

\* PositionRepository.delete(agent_id, stock_code)
RepoPositionDelete(a, s) ==
    /\ positions' = DeleteRow(positions, a, s)
    /\ UNCHANGED <<lockVars, agents, orders, txs, llmLogs, decisionLogs, req, taskVars, quoteVars, svcVars>>

\* ========================================================== quote store
\* StockQuoteRepository on the stock_quotes table. close_price stands for the
\* numeric columns (open, high, low, close, prev_close, volume, amount), which
\* upsert copies alike.
MaxBatch == 2
NoName == "null"
BadDate == <<0, 0, 0>>
TradeDates == {"2024-01-02", "2024-1-2", "2024-01-03", "20240103"}
QuoteNames == {NoName, "PFYH"}
QuoteInputs ==
    [stock_code : Stocks, trade_date : TradeDates,
     close_price : {QuoteClose, QuoteClose + 10}, stock_name : QuoteNames]

\* _parse_date: datetime.strptime(date_str, "%Y-%m-%d").date(); a string of
\* another shape raises ValueError.
ParseDate(date_str) ==
    CASE date_str \in {"2024-01-02", "2024-1-2"} -> <<2024, 1, 2>>
      [] date_str = "2024-01-03" -> <<2024, 1, 3>>
      [] OTHER -> BadDate

QuoteKeys == Stocks \X {<<2024, 1, 2>>, <<2024, 1, 3>>}
RowKey(row) == <<row.stock_code, row.trade_date>>

\* The update branch: the numeric columns are overwritten, and
\* "if quote.stock_name: existing.stock_name = quote.stock_name".
UpdatedRow(existing, quote) ==
    [existing EXCEPT !.close_price = quote.close_price,
                     !.stock_name = IF quote.stock_name # NoName
                                    THEN quote.stock_name ELSE @]

\* upsert(quote): the row of (stock_code, trade_date) is updated, or a new
\* row is inserted; True, or False when anything raised (rolled back).
Upsert(tbl, quote) ==
    LET trade_date == ParseDate(quote.trade_date)
        hits == {i \in DOMAIN tbl : RowKey(tbl[i]) = <<quote.stock_code, trade_date>>}
    IN IF trade_date = BadDate THEN [ok |-> FALSE, rows |-> tbl]
       ELSE IF hits # {}
       THEN LET i == CHOOSE x \in hits : \A y \in hits : x <= y
            IN [ok |-> TRUE, rows |-> [tbl EXCEPT ![i] = UpdatedRow(tbl[i], quote)]]
       ELSE [ok |-> TRUE,
             rows |-> Append(tbl, [stock_code |-> quote.stock_code,
                                   trade_date |-> trade_date,
                                   close_price |-> quote.close_price,
                                   stock_name |-> quote.stock_name])]

\* History: per key the values of the latest upsert that returned True since
\* the key was last deleted; the quotes the upsert_batch call in progress has
\* still to store and its success_count and fail_count; what the last single
\* upsert and the last delete returned.
NoQuote == [close_price |-> 0, stock_name |-> NoName, seen |-> FALSE]
NoUpserts == [latest |-> [k \in QuoteKeys |-> NoQuote], pending |-> <<>>,
              success |-> 0, fail |-> 0, single |-> "none", deleted |-> "none"]

LatestAfter(latest, q) ==
    LET k == <<q.stock_code, ParseDate(q.trade_date)>>
    IN IF k \in QuoteKeys
       THEN [latest EXCEPT ![k] = [close_price |-> q.close_price,
                                   stock_name |-> q.stock_name, seen |-> TRUE]]
       ELSE latest

\* upsert(quote) called on its own; it commits before it returns.
QuoteUpsert(quote) ==
    /\ quotes' = Upsert(quotes, quote).rows
    /\ upserted' = [upserted EXCEPT
                      !.latest = LatestAfter(@, quote),
                      !.single = IF Upsert(quotes, quote).ok THEN "true" ELSE "false"]
    /\ UNCHANGED <<lockVars, dbVars, req, taskVars, svcVars>>

\* upsert_batch(quotes) up to its loop: the counters start at 0. An empty
\* list returns (0, 0) at once.
QuoteUpsertBatch(qs) ==
    /\ upserted.pending = <<>>
    /\ upserted' = [upserted EXCEPT !.pending = qs, !.success = 0, !.fail = 0]
    /\ UNCHANGED <<lockVars, dbVars, req, taskVars, svcVars, quotes>>

\* One pass of the loop of upsert_batch: upsert commits the row (or rolls
\* back) before the next quote is looked at, so the other sessions see the
\* table between two rows of a batch and can write to it.
QuoteBatchRow ==
    /\ upserted.pending # <<>>
    /\ LET quote == Head(upserted.pending)
           one == Upsert(quotes, quote)
       IN /\ quotes' = one.rows
          /\ upserted' = [upserted EXCEPT
                            !.latest = LatestAfter(@, quote),
                            !.pending = Tail(@),
                            !.success = @ + (IF one.ok THEN 1 ELSE 0),
                            !.fail = @ + (IF one.ok THEN 0 ELSE 1)]
    /\ UNCHANGED <<lockVars, dbVars, req, taskVars, svcVars>>

\* delete_by_code_and_date(stock_code, trade_date): the rows of the key are
\* deleted and the call tells whether there were any; a trade_date that does
\* not parse raises ValueError before the query.
QuoteDelete(stock_code, trade_date) ==
    LET date_obj == ParseDate(trade_date)
        k == <<stock_code, date_obj>>
    IN /\ IF date_obj = BadDate
          THEN /\ upserted' = [upserted EXCEPT !.deleted = "raised"]
               /\ UNCHANGED quotes
          ELSE /\ quotes' = SelectSeq(quotes, LAMBDA row : RowKey(row) # k)
               /\ upserted' = [upserted EXCEPT
                                 !.latest[k] = NoQuote,
                                 !.deleted = IF \E i \in DOMAIN quotes : RowKey(quotes[i]) = k
                                             THEN "true" ELSE "false"]
       /\ UNCHANGED <<lockVars, dbVars, req, taskVars, svcVars>>

\* Decisions per cycle and decision values when two triggers run together.
\* ------------------------------------------------------------ templates
\* The highest version a template is taken to.
MaxVersion == 3

\* The number of templates ever created.
MaxTemplates == 2

\* The ids uuid4 hands out, each at most once, numbered in the order of creation.
TemplateIds == 1..MaxTemplates
TemplateNames == {"Momentum", "Value"}
TemplateContents == {"Cash: {{cash}}", "Date: {{current_date}}", "Cash: {{cash"}
\* PromptManager.validate_template: the content's placeholder syntax.
ValidateTemplate(content) == content # "Cash: {{cash"

\* state: "unused" (the id was never handed out), "stored", "deleted".
NoTemplate == [state |-> "unused", name |-> NoField, content |-> NoField, version |-> 0]
NoTplCall == [op |-> "none", id |-> 0, name |-> NoField, content |-> NoField,
              http |-> 0, before |-> NoTemplate, after |-> NoTemplate]

\* "model.version += 1" on a request that carries content.
NextVersion(version, content) == IF content # NoField THEN version + 1 ELSE version

\* create_template: 400 on invalid content, else a row with a fresh id and
\* version 1, mirrored in the manager.
CreateTemplate(t, name, content) ==
    /\ templates[t].state = "unused"
    /\ \A u \in TemplateIds : templates[u].state = "unused" => t <= u
    /\ IF ~ValidateTemplate(content)
       THEN /\ tplLast' = [NoTplCall EXCEPT !.op = "create", !.name = name,
                                            !.content = content, !.http = 400]
            /\ UNCHANGED <<templates, tplCache>>
       ELSE LET row == [state |-> "stored", name |-> name, content |-> content,
                        version |-> 1]
            IN /\ templates' = [templates EXCEPT ![t] = row]
               /\ tplCache' = [tplCache EXCEPT ![t] = row]
               /\ tplLast' = [op |-> "create", id |-> t, name |-> name,
                              content |-> content, http |-> 201,
                              before |-> templates[t], after |-> row]
    /\ UNCHANGED <<lockVars, dbVars, req, taskVars, quoteVars, stockLast, market,
                   manager, fan, cacheVars>>

\* update_template: 404 without a row, 400 on invalid content, else the
\* fields the request carries, the version and the manager's copy.
UpdateTemplate(t, name, content) ==
    /\ content # NoField => templates[t].version < MaxVersion
    /\ LET row == templates[t]
           http == IF row.state # "stored" THEN 404
                   ELSE IF content # NoField /\ ~ValidateTemplate(content) THEN 400
                   ELSE 200
           new == IF http # 200 THEN row
                  ELSE [row EXCEPT
                          !.name = IF name # NoField THEN name ELSE @,
                          !.content = IF content # NoField THEN content ELSE @,
                          !.version = NextVersion(@, content)]
       IN /\ templates' = [templates EXCEPT ![t] = new]
          /\ tplCache' = IF http = 200 THEN [tplCache EXCEPT ![t] = new] ELSE tplCache
          /\ tplLast' = [op |-> "update", id |-> t, name |-> name, content |-> content,
                         http |-> http, before |-> row, after |-> new]
    /\ UNCHANGED <<lockVars, dbVars, req, taskVars, quoteVars, stockLast, market,
                   manager, fan, cacheVars>>

\* delete_template: 404 without a row, else the row and the manager's copy go.
DeleteTemplate(t) ==
    /\ LET row == templates[t]
           http == IF row.state # "stored" THEN 404 ELSE 204
           new == IF http = 204 THEN [NoTemplate EXCEPT !.state = "deleted"] ELSE row
       IN /\ templates' = [templates EXCEPT ![t] = new]
          /\ tplCache' = IF http = 204 THEN [tplCache EXCEPT ![t] = NoTemplate]
                         ELSE tplCache
          /\ tplLast' = [op |-> "delete", id |-> t, name |-> NoField,
                         content |-> NoField, http |-> http,
                         before |-> row, after |-> new]
    /\ UNCHANGED <<lockVars, dbVars, req, taskVars, quoteVars, stockLast, market,
                   manager, fan, cacheVars>>

\* ------------------------------------------------------- stock endpoints
\* The routes under handle_stock_errors and under handle_ai_analysis_errors.
StockEndpoints == {"info", "quote", "kline", "minute", "capital-flow",
                   "capital-distribution", "profile", "shareholders", "news",
                   "analyst-ratings", "financials", "balance-sheet", "cash-flow"}
AiEndpoints == {"ai-analysis:post", "ai-analysis:get"}

\* What the body of a route can raise.
ExcClasses == {"StockNotFoundError", "StockDataError", "AIAnalysisError",
               "HTTPException", "ValueError", "KeyError", "TimeoutError"}

\* app.core.exceptions: the classes an exception is an instance of.
\* StockNotFoundError is a StockDataError (the services re-raise it through
\* "except StockDataError: raise"); AIAnalysisError is a class apart, imported
\* and caught on its own.
Mro(exc) ==
    CASE exc = "StockNotFoundError" -> {"StockNotFoundError", "StockDataError", "Exception"}
      [] exc = "StockDataError" -> {"StockDataError", "Exception"}
      [] exc = "AIAnalysisError" -> {"AIAnalysisError", "Exception"}
      [] OTHER -> {exc, "Exception"}

\* e.error_code of the application's exceptions.
ErrorCode(exc) ==
    CASE exc = "StockNotFoundError" -> "STOCK_NOT_FOUND"
      [] exc = "AIAnalysisError" -> "AI_ANALYSIS_ERROR"
      [] OTHER -> "STOCK_DATA_ERROR"

\* The except clauses of the two decorators, in the order they are written.
\* own: the detail carries the exception's own error_code.
MutStockHandlersDataFirst ==
    << [class |-> "StockDataError", http |-> 503, own |-> TRUE],
       [class |-> "StockNotFoundError", http |-> 404, own |-> TRUE],
       [class |-> "Exception", http |-> 500, own |-> FALSE] >>
StockHandlers ==
    << [class |-> "StockNotFoundError", http |-> 404, own |-> TRUE],
       [class |-> "StockDataError", http |-> 503, own |-> TRUE],
       [class |-> "Exception", http |-> 500, own |-> FALSE] >>
AiHandlers ==
    << [class |-> "AIAnalysisError", http |-> 503, own |-> TRUE],
       [class |-> "StockNotFoundError", http |-> 404, own |-> TRUE],
       [class |-> "StockDataError", http |-> 503, own |-> TRUE],
       [class |-> "Exception", http |-> 500, own |-> FALSE] >>

HandlersOf(endpoint) == IF endpoint \in AiEndpoints THEN AiHandlers ELSE StockHandlers

\* try/except: the first clause whose class the exception is an instance of.
FirstClause(handlers, exc) ==
    CHOOSE i \in 1..Len(handlers) :
        /\ handlers[i].class \in Mro(exc)
        /\ \A j \in 1..(i - 1) : handlers[j].class \notin Mro(exc)

NoStockCall == [endpoint |-> "none", stock_code |-> "none", raised |-> "none",
                http |-> 0, error_code |-> "none", clauses |-> {}]

\* One request to a stock route: the body returns (200) or raises, and the
\* decorator turns what it raised into one HTTPException.
StockRequest(endpoint, code, raised) ==
    /\ stockLast' =
          IF raised = "none"
          THEN [endpoint |-> endpoint, stock_code |-> code, raised |-> raised,
                http |-> 200, error_code |-> "none", clauses |-> {}]
          ELSE LET handlers == HandlersOf(endpoint)
                   i == FirstClause(handlers, raised)
               IN [endpoint |-> endpoint, stock_code |-> code, raised |-> raised,
                   http |-> handlers[i].http,
                   error_code |-> IF handlers[i].own THEN ErrorCode(raised)
                                  ELSE "INTERNAL_ERROR",
                   clauses |-> {i}]
    /\ UNCHANGED <<lockVars, dbVars, req, taskVars, quoteVars, tplVars, market,
                   manager, fan, cacheVars>>

\* ------------------------------------------------- stock data and cache
\* The cached stock endpoints modelled and the keys of their entries.
CachedEndpoints == {"info", "kline_daily"}
CacheKeys == CachedEndpoints
\* A cache entry: absent (the get returns None), or the dumped response, of
\* which the number of rows is kept (a dict counts as one row).
NoCached == [present |-> FALSE, rows |-> 0]
NoFetch == [op |-> "none", custom |-> FALSE, outs |-> <<>>, hit |-> FALSE,
            attempts |-> 0, sleeps |-> <<>>, raised |-> "none", rows |-> 0,
            stored |-> FALSE, then_hits |-> FALSE]
\* The requests that can be in progress at a time.
StockReqs == {"g1", "g2"}
\* A request in progress: where it waits (for the upstream call offloaded to
\* the executor, or in the sleep before a retry), the outcomes of its upstream
\* calls so far and the sleeps it made.
NoStockReq == [pc |-> "idle", op |-> "none", custom |-> FALSE, outs |-> <<>>,
               sleeps |-> <<>>]

\* StockDataService(db): max_retries and retry_delay of the constructor.
DefaultMaxRetries == 3
DefaultRetryDelay == 1

\* One upstream call: AkShare returns rows, returns nothing, raises (a network
\* error), or the executor the call is offloaded to raises before it runs.
AkOutcomes == {"data", "empty", "raises", "pool_error"}

\* _get_stock_info_sync, _get_kline_data_sync under _run_sync: what one
\* attempt returns or raises.
SyncCall(endpoint, out) ==
    IF out = "pool_error" THEN [raised |-> "RuntimeError", rows |-> 0]
    ELSE IF out = "raises" THEN [raised |-> "StockDataError", rows |-> 0]
    ELSE IF out = "empty"
    THEN IF endpoint = "info" THEN [raised |-> "StockNotFoundError", rows |-> 0]
         ELSE [raised |-> "none", rows |-> 0]
    ELSE [raised |-> "none", rows |-> 1]

\* "if cached:" on what the cache returned.
Truthy(cached) == cached.present /\ cached.rows > 0

\* Whether the request goes through the cache: the K-line route only with
\* its default range and limit.
UsesCache(endpoint, custom) == endpoint = "info" \/ ~custom

\* What a request that ends answers, with the cache as it leaves it.
Answer(q, hit, raised, rows, stored, after) ==
    [op |-> q.op, custom |-> q.custom, outs |-> q.outs, hit |-> hit,
     attempts |-> Len(q.outs), sleeps |-> q.sleeps, raised |-> raised, rows |-> rows,
     stored |-> stored,
     then_hits |-> UsesCache(q.op, q.custom) /\ Truthy(after[q.op])]

\* get_stock_info, get_stock_kline up to the await of the upstream call: the
\* cache is read and a hit answered; on a miss the first upstream call is
\* offloaded. custom: a K-line request with start_date, end_date or a limit
\* of its own.
StockGet(p, endpoint, custom) ==
    /\ stockReq[p].pc = "idle"
    /\ custom => endpoint # "info"
    /\ LET cached == IF UsesCache(endpoint, custom) THEN cache[endpoint] ELSE NoCached
           q == [NoStockReq EXCEPT !.op = endpoint, !.custom = custom]
       IN IF Truthy(cached)
          THEN /\ fetchLast' = Answer(q, TRUE, "none", cached.rows, FALSE, cache)
               /\ UNCHANGED stockReq
          ELSE /\ stockReq' = [stockReq EXCEPT ![p] = [q EXCEPT !.pc = "call"]]
               /\ UNCHANGED fetchLast
    /\ UNCHANGED <<lockVars, dbVars, req, taskVars, quoteVars, tplVars, stockLast,
                   market, manager, fan, cache>>

\* One turn of the loop of _fetch_with_retry and what follows it: the upstream
\* call returns and the route stores the response and answers; it raises a
\* StockDataError, which is raised on at once; it raises something else, and
\* the request sleeps before the next attempt or, after the last, raises
\* StockDataError.
StockAttempt(p, out) ==
    /\ stockReq[p].pc = "call"
    /\ LET attempt == Len(stockReq[p].outs)
           q == [stockReq[p] EXCEPT !.outs = Append(@, out)]
           res == SyncCall(q.op, out)
           stores == res.raised = "none" /\ UsesCache(q.op, q.custom)
           after == IF stores
                    THEN [cache EXCEPT ![q.op] = [present |-> TRUE, rows |-> res.rows]]
                    ELSE cache
       IN IF res.raised = "none" \/ "StockDataError" \in Mro(res.raised)
          THEN /\ cache' = after
               /\ fetchLast' = Answer(q, FALSE, res.raised, res.rows, stores, after)
               /\ stockReq' = [stockReq EXCEPT ![p] = NoStockReq]
          ELSE IF attempt < DefaultMaxRetries - 1
          THEN /\ stockReq' = [stockReq EXCEPT ![p] =
                     [q EXCEPT !.pc = "sleep",
                               !.sleeps = Append(@, DefaultRetryDelay * (attempt + 1))]]
               /\ UNCHANGED <<cache, fetchLast>>
          ELSE /\ fetchLast' = Answer(q, FALSE, "StockDataError", 0, FALSE, cache)
               /\ stockReq' = [stockReq EXCEPT ![p] = NoStockReq]
               /\ UNCHANGED cache
    /\ UNCHANGED <<lockVars, dbVars, req, taskVars, quoteVars, tplVars, stockLast,
                   market, manager, fan>>

\* The sleep before a retry ends and the next upstream call is offloaded.
StockRetry(p) ==
    /\ stockReq[p].pc = "sleep"
    /\ stockReq' = [stockReq EXCEPT ![p].pc = "call"]
    /\ UNCHANGED <<lockVars, dbVars, req, taskVars, quoteVars, tplVars, stockLast,
                   market, manager, fan, cache, fetchLast>>

\* An entry reaches its time to live.
CacheExpire(k) ==
    /\ cache[k].present
    /\ cache' = [cache EXCEPT ![k] = NoCached]
    /\ UNCHANGED <<lockVars, dbVars, req, taskVars, quoteVars, tplVars, stockLast,
                   market, manager, fan, fetchLast, stockReq>>

\* ---------------------------------------------------------- market data
\* The most rows an A-share snapshot has.
MaxRows == 3

\* A row of the snapshot: code, name, change in percent, amount and latest
\* price (which stands for the other price columns).
SpotRows ==
    {[code |-> "600000", name |-> "PFYH", change |-> -10, amount |-> 1, price |-> QuoteClose],
     [code |-> "000001", name |-> "", change |-> 0, amount |-> 2, price |-> QuoteClose],
     [code |-> "000001", name |-> "PAYH", change |-> 5, amount |-> 1,
      price |-> QuoteClose + 10],
     [code |-> "600000", name |-> "PFYH", change |-> 5, amount |-> 2,
      price |-> QuoteClose + 10]}
Dataframes == UNION {[1..n -> SpotRows] : n \in 0..MaxRows}
\* spot_df: None, or a dataframe.
NoDf == [given |-> FALSE, rows |-> <<>>]
SpotDfs == {NoDf} \cup [given : {TRUE}, rows : Dataframes]

MarketTypes == {"market_sentiment", "index_overview", "hot_stocks"}
MainIndices == <<"SSE Composite", "SZSE Component", "ChiNext", "STAR 50",
                 "CSI 300", "CSI 500">>
IndexNames == {MainIndices[i] : i \in 1..Len(MainIndices)}
\* The names the index snapshot carries.
IndexFound == {{}, {"SSE Composite", "CSI 300", "Hang Seng"}, IndexNames}

CountRows(rows, lo, hi) ==
    Cardinality({i \in 1..Len(rows) : rows[i].change >= lo /\ rows[i].change <= hi})

\* "fear_greed = int((up_count / total) * 100)"; on tables of fewer than 50
\* rows the float product truncates to the integer quotient.
FearGreed(up_count, total) == (up_count * 100) \div total

MarketMood(fear_greed) ==
    IF fear_greed >= 70 THEN "extreme_greed"
    ELSE IF fear_greed >= 55 THEN "optimistic"
    ELSE IF fear_greed >= 45 THEN "neutral"
    ELSE IF fear_greed >= 30 THEN "pessimistic"
    ELSE "extreme_fear"

DefaultSentiment ==
    [fear_greed_index |-> 50, market_mood |-> "neutral", counted |-> FALSE,
     up_count |-> 0, down_count |-> 0, flat_count |-> 0, total_count |-> 0,
     limit_up_count |-> 0, limit_down_count |-> 0]

\* sentiment_data of _refresh_market_sentiment_with_data, without the turnover
\* label and the timestamp.
Sentiment(df) ==
    IF ~df.given \/ df.rows = <<>> THEN DefaultSentiment
    ELSE LET up == CountRows(df.rows, 1, 100)
             total == Len(df.rows)
         IN [fear_greed_index |-> FearGreed(up, total),
             market_mood |-> MarketMood(FearGreed(up, total)),
             counted |-> TRUE,
             up_count |-> up,
             down_count |-> CountRows(df.rows, -100, -1),
             flat_count |-> CountRows(df.rows, 0, 0),
             total_count |-> total,
             limit_up_count |-> CountRows(df.rows, 10, 100),
             limit_down_count |-> CountRows(df.rows, -100, -10)]

Perms(n) == {q \in [1..n -> 1..n] : \A i, j \in 1..n : i # j => q[i] # q[j]}

\* "df.sort_values(amount, ascending=False)": the sort is not stable, rows of
\* equal amount come out in any order.
SortedByAmount(rows) ==
    {[i \in 1..Len(rows) |-> rows[q[i]]] :
        q \in {x \in Perms(Len(rows)) :
                 \A i \in 1..(Len(rows) - 1) : rows[x[i]].amount >= rows[x[i + 1]].amount}}

\* index_data["indices"]: the main indices found, in the order of the list.
IndexOverview(found) == SelectSeq(MainIndices, LAMBDA name : name \in found)

\* The refreshers refresh_all runs, in order; fetches: whether the refresher
\* calls the A-share snapshot itself (refresh_market_sentiment and
\* refresh_hot_stocks do, the _with_data forms do not).
MutRefreshAllStandalone ==
    << [type |-> "market_sentiment", fetches |-> TRUE],
       [type |-> "index_overview", fetches |-> FALSE],
       [type |-> "hot_stocks", fetches |-> TRUE] >>
RefreshAllSteps ==
    << [type |-> "market_sentiment", fetches |-> FALSE],
       [type |-> "index_overview", fetches |-> FALSE],
       [type |-> "hot_stocks", fetches |-> FALSE] >>

StepOf(type) ==
    RefreshAllSteps[CHOOSE i \in 1..Len(RefreshAllSteps) : RefreshAllSteps[i].type = type]

NoStore == [market_sentiment |-> [present |-> FALSE, content |-> DefaultSentiment],
            index_overview |-> [present |-> FALSE, content |-> <<>>],
            hot_stocks |-> [present |-> FALSE, content |-> <<>>]]
\* The market_data rows, and the public call in progress or last returned:
\* op the call, pc the refresher it is about to run ("quotes" while the quotes
\* of the hot list are stored), injected whether the service holds a
\* QuoteService, hot the list built, pending the quotes still to store, done
\* the refreshers that returned, results what they returned, seen what the
\* last get_all_market_data found.
NoMarket == [op |-> "none", pc |-> "idle", injected |-> FALSE, store |-> NoStore,
             spot_calls |-> 0, index_calls |-> 0,
             spot_df |-> NoDf, sentiment_df |-> NoDf, hot_df |-> NoDf,
             hot |-> <<>>, pending |-> <<>>, quotes_saved |-> 0,
             fetch_raised |-> FALSE, results |-> [t \in MarketTypes |-> FALSE],
             done |-> {}, seen |-> {}]

\* MarketDataRepository.upsert of one artifact: the row of today is written
\* and True returned, or the write raises, is rolled back and False returned.
MarketUpsert(store, type, content, ok) ==
    IF ok THEN [store EXCEPT ![type] = [present |-> TRUE, content |-> content]]
    ELSE store

\* The snapshot call: it raises or returns a dataframe.
SpotFetches == {[raises |-> TRUE, df |-> NoDf]} \cup [raises : {FALSE}, df : SpotDfs]
\* The index snapshot call: it raises or returns rows with these names.
IndexFetches == {[raises |-> TRUE, found |-> {}]} \cup [raises : {FALSE}, found : IndexFound]

\* today_str()
Today == "2024-01-03"
\* The StockQuote built from a row of the snapshot; "str(name) or None".
QuoteOfRow(row) ==
    [stock_code |-> row.code, trade_date |-> Today, close_price |-> row.price,
     stock_name |-> IF row.name = "" THEN NoName ELSE row.name]

\* "limit" of refresh_hot_stocks when the caller gives none.
DefaultHotLimit == 500
\* "df.head(limit)" when there is a limit.
HeadRows(rows, limited) ==
    IF limited /\ Len(rows) > DefaultHotLimit THEN SubSeq(rows, 1, DefaultHotLimit)
    ELSE rows

\* A refresher returns False from its except clause, having written nothing.
RefreshFailed(m, type) ==
    [m EXCEPT !.results[type] = FALSE, !.done = @ \cup {type}]

\* _refresh_market_sentiment_with_data(df): the sentiment of df is upserted.
WithSentiment(m, df, ok) ==
    [m EXCEPT !.sentiment_df = df,
              !.store = MarketUpsert(@, "market_sentiment", Sentiment(df), ok),
              !.results["market_sentiment"] = ok,
              !.done = @ \cup {"market_sentiment"}]

\* refresh_index_overview: a failed snapshot call leaves the list empty.
WithIndex(m, idx, ok) ==
    [m EXCEPT !.index_calls = @ + 1,
              !.store = MarketUpsert(@, "index_overview", IndexOverview(idx.found), ok),
              !.results["index_overview"] = ok,
              !.done = @ \cup {"index_overview"}]

\* _refresh_hot_stocks_with_data(df, limit) up to the storing of the quotes:
\* the list of stocks and quotes_to_save, in the order the sort left.
WithHotList(m, df, sorted) ==
    [m EXCEPT !.pc = "quotes", !.hot_df = df, !.hot = sorted,
              !.pending = [i \in 1..Len(sorted) |-> QuoteOfRow(sorted[i])],
              !.quotes_saved = 0]

\* The lists the sort and the head can leave of the rows of df.
HotLists(df, limited) == {HeadRows(x, limited) : x \in SortedByAmount(df.rows)}

\* refresh_market_sentiment(): its own snapshot call, then the refresher.
SentimentCall(m, fetch, ok) ==
    LET called == [m EXCEPT !.spot_calls = @ + 1, !.fetch_raised = fetch.raises]
    IN IF fetch.raises THEN RefreshFailed(called, "market_sentiment")
       ELSE WithSentiment(called, fetch.df, ok)

\* refresh_all up to its first refresher: the one snapshot call.
RefreshAll(fetch, injected) ==
    /\ market.op = "none"
    /\ market' = [market EXCEPT !.op = "refresh_all", !.pc = "market_sentiment",
                                !.injected = injected, !.spot_df = fetch.df,
                                !.spot_calls = 1, !.fetch_raised = fetch.raises]
    /\ UNCHANGED <<lockVars, dbVars, req, taskVars, quoteVars, tplVars, stockLast,
                   manager, fan, cacheVars>>

\* The first refresher of refresh_all and its commit.
RefreshSentimentStep(ok) ==
    /\ market.op = "refresh_all"
    /\ market.pc = "market_sentiment"
    /\ LET own == StepOf("market_sentiment").fetches
           m == [market EXCEPT !.pc = "index_overview",
                               !.spot_calls = IF own THEN @ + 1 ELSE @]
       IN \E df \in IF own THEN SpotDfs ELSE {market.spot_df} :
             market' = WithSentiment(m, df, ok)
    /\ UNCHANGED <<lockVars, dbVars, req, taskVars, quoteVars, tplVars, stockLast,
                   manager, fan, cacheVars>>

\* The second refresher of refresh_all and its commit.
RefreshIndexStep(idx, ok) ==
    /\ market.op = "refresh_all"
    /\ market.pc = "index_overview"
    /\ market' = WithIndex([market EXCEPT !.pc = "hot_stocks"], idx, ok)
    /\ UNCHANGED <<lockVars, dbVars, req, taskVars, quoteVars, tplVars, stockLast,
                   manager, fan, cacheVars>>

\* The third refresher of refresh_all up to the storing of the quotes.
RefreshHotStep ==
    /\ market.op = "refresh_all"
    /\ market.pc = "hot_stocks"
    /\ LET own == StepOf("hot_stocks").fetches
           m == [market EXCEPT !.spot_calls = IF own THEN @ + 1 ELSE @]
       IN \E df \in IF own THEN SpotDfs ELSE {market.spot_df} :
          \E sorted \in HotLists(df, FALSE) :
             market' = WithHotList(m, df, sorted)
    /\ UNCHANGED <<lockVars, dbVars, req, taskVars, quoteVars, tplVars, stockLast,
                   manager, fan, cacheVars>>

\* One quote of quotes_to_save is stored and committed: by
\* StockQuoteRepository.upsert when no QuoteService was injected, by
\* QuoteService.upsert_quotes, the batch upsert, when one was.
RefreshQuoteRow ==
    /\ market.pc = "quotes"
    /\ market.pending # <<>>
    /\ LET quote == Head(market.pending)
           one == Upsert(quotes, quote)
       IN /\ quotes' = one.rows
          /\ upserted' = [upserted EXCEPT !.latest = LatestAfter(@, quote)]
          /\ market' = [market EXCEPT !.pending = Tail(@),
                                      !.quotes_saved = @ + (IF one.ok THEN 1 ELSE 0)]
    /\ UNCHANGED <<lockVars, dbVars, req, taskVars, tplVars, stockLast, manager, fan, cacheVars>>

\* The upsert of the hot list, after which the refresher and its caller return.
RefreshHotStore(ok) ==
    /\ market.pc = "quotes"
    /\ market.pending = <<>>
    /\ market' = [market EXCEPT
                    !.pc = "idle",
                    !.store = MarketUpsert(@, "hot_stocks", market.hot, ok),
                    !.results["hot_stocks"] = ok,
                    !.done = @ \cup {"hot_stocks"}]
    /\ UNCHANGED <<lockVars, dbVars, req, taskVars, quoteVars, tplVars, stockLast,
                   manager, fan, cacheVars>>

\* refresh_market_sentiment() called on its own.
RefreshMarketSentiment(fetch, ok) ==
    /\ market.op = "none"
    /\ market' = SentimentCall([market EXCEPT !.op = "market_sentiment"], fetch, ok)
    /\ UNCHANGED <<lockVars, dbVars, req, taskVars, quoteVars, tplVars, stockLast,
                   manager, fan, cacheVars>>

\* refresh_index_overview() called on its own.
RefreshIndexOverview(idx, ok) ==
    /\ market.op = "none"
    /\ market' = WithIndex([market EXCEPT !.op = "index_overview"], idx, ok)
    /\ UNCHANGED <<lockVars, dbVars, req, taskVars, quoteVars, tplVars, stockLast,
                   manager, fan, cacheVars>>

\* refresh_hot_stocks() called on its own, up to the storing of the quotes.
RefreshHotStocks(fetch, injected) ==
    /\ market.op = "none"
    /\ LET m == [market EXCEPT !.op = "hot_stocks", !.injected = injected,
                               !.spot_calls = @ + 1, !.fetch_raised = fetch.raises]
       IN IF fetch.raises THEN market' = RefreshFailed(m, "hot_stocks")
          ELSE \E sorted \in HotLists(fetch.df, TRUE) :
                  market' = WithHotList(m, fetch.df, sorted)
    /\ UNCHANGED <<lockVars, dbVars, req, taskVars, quoteVars, tplVars, stockLast,
                   manager, fan, cacheVars>>

\* get_all_market_data() of another session: the artifacts committed so far.
GetAllMarketData ==
    /\ market' = [market EXCEPT !.seen = {t \in MarketTypes : market.store[t].present}]
    /\ UNCHANGED <<lockVars, dbVars, req, taskVars, quoteVars, tplVars, stockLast,
                   manager, fan, cacheVars>>

\* ------------------------------------------- quote sync and refresh tasks
\* "if result.get(\"error_message\"): log.error_message = ...": an empty text
\* is falsy and leaves the column as it was.
WithMessage(row, text) == [row EXCEPT !.error_message = IF text # "" THEN text ELSE @]

\* _execute_quote_sync up to the await of the sync: the QuoteService is built
\* and sync_quotes or sync_specific_stocks called. raises: the import or the
\* constructor raises, so no sync is called (caught inside, a failed result
\* with the text of the exception), and the row is the one of that result.
TaskQuoteSync(raises, text) ==
    /\ run.pc = "dispatch"
    /\ task.task_type = "quote_sync"
    /\ IF raises
       THEN /\ taskLogs' = [taskLogs EXCEPT ![run.log] =
                  WithMessage([@ EXCEPT !.agent_results =
                                           {[agent |-> "quote_sync", status |-> "failed"]},
                                        !.status = "failed", !.completed = TRUE],
                              text)]
            /\ run' = [run EXCEPT !.pc = "idle"]
            /\ UNCHANGED effects
       ELSE /\ effects' = [effects EXCEPT !.quote_sync = @ + 1]
            /\ run' = [run EXCEPT !.pc = "sync"]
            /\ UNCHANGED taskLogs
    /\ UNCHANGED <<lockVars, dbVars, req, quoteVars, svcVars, task>>

\* Quotes a sync stores before it returns, at most.
MaxSynced == 1
\* The quotes a sync fetches.
SyncQuotes == {q \in QuoteInputs : q.trade_date = Today /\ q.stock_name = "PFYH"}

\* The sync stores one quote it fetched, by upsert_quotes.
TaskSyncStore(quote) ==
    /\ run.pc = "sync"
    /\ run.synced < MaxSynced
    /\ quotes' = Upsert(quotes, quote).rows
    /\ upserted' = [upserted EXCEPT !.latest = LatestAfter(@, quote)]
    /\ run' = [run EXCEPT !.synced = @ + 1]
    /\ UNCHANGED <<lockVars, dbVars, req, svcVars, task, taskLogs, effects>>

\* The rest of _execute_quote_sync and the row: the sync reports success or
\* failure with its message, or something raised (caught inside, a failed
\* result with the text of the exception). text: the message or the text.
TaskQuoteSyncReturn(outcome, text) ==
    /\ run.pc = "sync"
    /\ LET st == IF outcome = "success" THEN "success" ELSE "failed"
       IN taskLogs' = [taskLogs EXCEPT ![run.log] =
             WithMessage([@ EXCEPT !.agent_results = {[agent |-> "quote_sync", status |-> st]},
                                   !.status = st, !.completed = TRUE],
                         IF outcome = "success" THEN "" ELSE text)]
    /\ run' = [run EXCEPT !.pc = "idle"]
    /\ UNCHANGED <<lockVars, dbVars, req, quoteVars, svcVars, task, effects>>

\* The refresh calls _execute_market_refresh makes for a refresh_types value.
RefreshCalls(refresh_types) ==
    IF ~refresh_types.given \/ refresh_types.types = {} THEN RefreshTypes
    ELSE refresh_types.types \cap RefreshTypes

\* The order of the three "if" of _execute_market_refresh.
RefreshOrder == <<"sentiment", "indices", "hot_stocks">>
\* The artifact each refresh type stores.
MarketTypeOf(t) ==
    CASE t = "sentiment" -> "market_sentiment"
      [] t = "indices" -> "index_overview"
      [] t = "hot_stocks" -> "hot_stocks"

\* "all_success = all(results.values())"
MutAnySuccess(results) == \E t \in DOMAIN results : results[t]
AllSuccess(results) == \A t \in DOMAIN results : results[t]

\* _execute_market_refresh up to its first refresher: a QuoteService and a
\* MarketDataService of its own are built over the tables. raises: building
\* them raises (caught inside, a failed result with the text of the exception),
\* and the row is the one of that result.
TaskMarketRefresh(raises, text) ==
    /\ run.pc = "dispatch"
    /\ task.task_type = "market_refresh"
    /\ effects' = [effects EXCEPT !.refresh_raised = raises,
                                  !.refresh_text = IF raises THEN text ELSE @]
    /\ IF raises
       THEN /\ taskLogs' = [taskLogs EXCEPT ![run.log] =
                  WithMessage([@ EXCEPT !.agent_results =
                                           {[agent |-> "market_refresh", status |-> "failed"]},
                                        !.status = "failed", !.completed = TRUE],
                              text)]
            /\ run' = [run EXCEPT !.pc = "idle"]
            /\ UNCHANGED market
       ELSE /\ run' = [run EXCEPT
                         !.pc = "refresh",
                         !.todo = SelectSeq(RefreshOrder,
                                            LAMBDA t : t \in RefreshCalls(task.refresh_types))]
            /\ market' = [NoMarket EXCEPT !.store = market.store, !.injected = TRUE]
            /\ UNCHANGED taskLogs
    /\ UNCHANGED <<lockVars, dbVars, req, quoteVars, tplVars, stockLast, manager, fan, cacheVars,
                   task>>

\* The snapshot calls of a refresh task: one raises, one returns a row.
TaskFetches ==
    {[raises |-> TRUE, df |-> NoDf],
     [raises |-> FALSE,
      df |-> [given |-> TRUE,
              rows |-> <<[code |-> "600000", name |-> "PFYH", change |-> 5, amount |-> 2,
                          price |-> QuoteClose + 10]>>]]}

\* The index snapshot calls of a refresh task.
TaskIndexFetches == {[raises |-> TRUE, found |-> {}], [raises |-> FALSE, found |-> IndexNames]}

\* The next refresher of the task is called: refresh_market_sentiment and
\* refresh_index_overview return after their commit, refresh_hot_stocks goes on
\* to store its quotes through the QuoteService the task injected.
TaskRefresh(fetch, idx, ok) ==
    /\ run.pc = "refresh"
    /\ ~run.awaiting
    /\ run.todo # <<>>
    /\ market.pc = "idle"
    /\ LET t == Head(run.todo)
           m == [market EXCEPT !.op = MarketTypeOf(t)]
           called == [m EXCEPT !.spot_calls = @ + 1, !.fetch_raised = fetch.raises]
       IN CASE t = "sentiment" -> market' = SentimentCall(m, fetch, ok)
            [] t = "indices" -> market' = WithIndex(m, idx, ok)
            [] t = "hot_stocks" ->
                  IF fetch.raises THEN market' = RefreshFailed(called, "hot_stocks")
                  ELSE \E sorted \in HotLists(fetch.df, TRUE) :
                          market' = WithHotList(called, fetch.df, sorted)
    /\ run' = [run EXCEPT !.awaiting = TRUE]
    /\ effects' = [effects EXCEPT !.refresh = @ \cup {Head(run.todo)}]
    /\ UNCHANGED <<lockVars, dbVars, req, quoteVars, tplVars, stockLast, manager, fan, cacheVars,
                   task, taskLogs>>

\* The refresher returned: "results[...] = await market_service.refresh_...()".
TaskRefreshReturn ==
    /\ run.pc = "refresh"
    /\ run.awaiting
    /\ market.pc = "idle"
    /\ run' = [run EXCEPT !.awaiting = FALSE, !.todo = Tail(@)]
    /\ effects' = [effects EXCEPT
                     !.refreshed = IF market.results[MarketTypeOf(Head(run.todo))]
                                   THEN @ \cup {Head(run.todo)} ELSE @]
    /\ UNCHANGED <<lockVars, dbVars, req, quoteVars, svcVars, task, taskLogs>>

\* The result of _execute_market_refresh after the last refresher, and the row.
TaskRefreshDone ==
    /\ run.pc = "refresh"
    /\ ~run.awaiting
    /\ run.todo = <<>>
    /\ LET results == [t \in effects.refresh |-> t \in effects.refreshed]
           st == IF AllSuccess(results) THEN "success" ELSE "failed"
       IN taskLogs' = [taskLogs EXCEPT ![run.log] =
             WithMessage([@ EXCEPT !.agent_results = {[agent |-> "market_refresh", status |-> st]},
                                   !.status = st, !.completed = TRUE],
                         IF st = "success" THEN "" ELSE "partial_refresh_failed")]
    /\ run' = [run EXCEPT !.pc = "idle"]
    /\ UNCHANGED <<lockVars, dbVars, req, quoteVars, svcVars, task, effects>>

MaxConcDecisions == 1
ConcDecisions ==
    {d \in Decisions : /\ d.price = 0 /\ d.kind # "wait"
                       /\ d.kind = "hold" \/ (HasQuote(d.stock) /\ d.quantity = 100)}
SoloReqs == {"r1"}

InitRows ==
    /\ positions = [a \in Agents |->
                      [s \in Stocks |-> IF a = "a1" THEN HeldPos ELSE NoPos]]
    /\ orders = {}
    /\ txs = {}
    /\ llmLogs = <<>>
    /\ decisionLogs = <<>>

InitIdle ==
    /\ redis = [k \in LockKeys |-> NoVal]
    /\ lk = IdleLk
    /\ lkLast = NoCall
    /\ req = [r \in Reqs |-> IdleReq]
    /\ task = IdleTask
    /\ taskLogs = <<>>
    /\ run = IdleRun
    /\ effects = NoEffects
    /\ quotes = <<>>
    /\ upserted = NoUpserts
    /\ templates = [t \in TemplateIds |-> NoTemplate]
    /\ tplCache = [t \in TemplateIds |-> NoTemplate]
    /\ tplLast = NoTplCall
    /\ stockLast = NoStockCall
    /\ market = NoMarket
    /\ manager = NoManager
    /\ fan = NoFan
    /\ cache = [k \in CacheKeys |-> NoCached]
    /\ fetchLast = NoFetch
    /\ stockReq = [p \in StockReqs |-> NoStockReq]

ReadyAgent == [status |-> "active", cash |-> InitCash, provider |-> "ok"]

\* Two triggers at a time on one agent that can run a cycle, the decision
\* lock's time to live running out meanwhile.
Init ==
    /\ InitIdle
    /\ InitRows
    /\ agents = [a \in Agents |-> ReadyAgent]

\* The places between two awaits of a trigger: from the lock to the await of
\* execute_decision_cycle, and from its return to the return of the trigger
\* (the repositories are synchronous).
SyncPcs == {"load"} \cup WritePcs \cup {"finish"}

\* The triggers of one server process run on one event loop: a trigger takes
\* a step only while no other trigger is between two awaits.
Runs(r) == \A o \in Reqs \ {r} : req[o].pc \notin SyncPcs

\* The two triggers are alike: r1 names the one that arrives first.
Arrives(r) == r = "r1" \/ req["r1"].pc # "idle"

Next ==
    \/ \E r \in Reqs, kind \in TriggerKinds :
          Runs(r) /\ Arrives(r) /\ ReqTrigger(r, "a1", kind)
    \/ \E r \in Reqs, clientErr \in BOOLEAN : Runs(r) /\ ReqLoad(r, clientErr)
    \/ \E r \in Reqs, outcome \in CycleOutcomes, n \in 0..MaxConcDecisions,
          logged \in LogOutcomes : Runs(r) /\ ReqLlm(r, outcome, n, logged)
    \/ \E r \in Reqs, d \in ConcDecisions, raise \in {"none", "API down"} :
          Runs(r) /\ ReqDecide(r, d, raise)
    \/ \E r \in Reqs : Runs(r) /\ ReqSaveTx(r)
    \/ \E r \in Reqs : Runs(r) /\ ReqPosDelete(r)
    \/ \E r \in Reqs : Runs(r) /\ ReqPosSave(r)
    \/ \E r \in Reqs : Runs(r) /\ ReqCashWrite(r)
    \/ \E r \in Reqs : Runs(r) /\ ReqAgentSave(r)
    \/ \E r \in Reqs : Runs(r) /\ ReqFinish(r)
    \/ \E k \in LockKeys : ReqTick(k)

Spec == Init /\ [][Next]_vars

\* One trigger, on an agent in any status and with any provider state.
InitCycle ==
    /\ InitIdle
    /\ InitRows
    /\ agents \in [Agents -> [status : AgentStatuses, cash : {InitCash},
                              provider : ProviderStates]]
    /\ agents["a2"] = ReadyAgent

\* The steps of one decision cycle whose LLM request log row is committed
\* (Spec and SpecFan have the endings of the log callback that leave none).
CycleSteps ==
    \/ \E r \in SoloReqs, a \in Agents, kind \in TriggerKinds : ReqTrigger(r, a, kind)
    \/ \E r \in SoloReqs, clientErr \in BOOLEAN : ReqLoad(r, clientErr)
    \/ \E r \in SoloReqs, outcome \in CycleOutcomes, n \in 0..MaxDecisions :
          ReqLlm(r, outcome, n, "saved")
    \/ \E r \in SoloReqs, d \in Decisions, raise \in {"none"} \cup LoopMessages :
          ReqDecide(r, d, raise)
    \/ \E r \in SoloReqs : ReqSaveTx(r)
    \/ \E r \in SoloReqs : ReqPosDelete(r)
    \/ \E r \in SoloReqs : ReqPosSave(r)
    \/ \E r \in SoloReqs : ReqCashWrite(r)
    \/ \E r \in SoloReqs : ReqAgentSave(r)
    \/ \E r \in SoloReqs : ReqFinish(r)
    \/ \E k \in LockKeys : ReqTick(k)

\* The cycle, and OrderRepository.update_status on a row it has saved, at any
\* moment of the cycle and to any status; one row at a time carries a rewrite.
NextCycle ==
    \/ CycleSteps
    \/ \E r \in SoloReqs, i \in 1..MaxDecisions, status \in OrderStatuses :
          /\ \A o \in orders : o.reject = "late" => o.id = <<r, i>>
          /\ RepoOrderUpdateStatus(<<r, i>>, status, "late")

SpecCycle == InitCycle /\ [][NextCycle]_vars

\* POST /agents/trigger-all: trigger_all_decisions gathers one
\* trigger_agent_decision per active agent, all on the session of the request
\* and on one event loop. r1 is the trigger of a1, r2 the trigger of a2.
FanAgent == [r \in Reqs |-> IF r = "r1" THEN "a1" ELSE "a2"]
TaskOf(a) == CHOOSE r \in Reqs : FanAgent[r] = a

\* repo.get_active(): the active agents, in the order of their rows.
AgentRows == <<"a1", "a2">>
GetActive == SelectSeq(AgentRows, LAMBDA a : agents[a].status = "active")

\* trigger_single_agent: the entry made of the dict its trigger returned.
FanEntry(a) ==
    LET q == req[TaskOf(a)]
    IN [agent_id |-> a, success |-> q.resp.success,
        executed_count |-> q.resp.executed, error |-> q.resp.error]

\* trigger_all_decisions up to the gather: all_agents, and the response
\* with no results when there is none.
TriggerAll ==
    /\ fan.pc = "idle"
    /\ fan' = [fan EXCEPT !.pc = IF GetActive = <<>> THEN "done" ELSE "gather",
                          !.targets = GetActive]
    /\ UNCHANGED <<lockVars, dbVars, req, taskVars, quoteVars, tplVars, stockLast, market,
                   manager, cacheVars>>

\* The gather returns once every trigger has: processed_results holds the
\* entry of each task, at the index of its agent.
GatherAll ==
    /\ fan.pc = "gather"
    /\ \A i \in DOMAIN fan.targets : req[TaskOf(fan.targets[i])].pc = "done"
    /\ fan' = [fan EXCEPT !.pc = "done",
                          !.results = [i \in DOMAIN fan.targets |-> FanEntry(fan.targets[i])]]
    /\ UNCHANGED <<lockVars, dbVars, req, taskVars, quoteVars, tplVars, stockLast, market,
                   manager, cacheVars>>

\* The trigger r is one of the gathered tasks.
InGather(r) == fan.pc = "gather" /\ \E i \in DOMAIN fan.targets : fan.targets[i] = FanAgent[r]

\* A trigger of agent a in another server process took a's decision lock
\* before the fan-out and holds it throughout.
OtherTrigger(a) ==
    /\ fan.pc = "idle"
    /\ SetNxOk(redis, a)
    /\ redis' = SetNx(redis, a, "i1", DecisionTtl)
    /\ UNCHANGED <<lk, lkLast, dbVars, req, taskVars, quoteVars, svcVars>>

\* Agents in either status the fan-out tells apart.
InitFan ==
    /\ InitIdle
    /\ InitRows
    /\ agents \in [Agents -> {ReadyAgent, [ReadyAgent EXCEPT !.status = "paused"]}]

NextFan ==
    \/ \E a \in Agents : OtherTrigger(a)
    \/ TriggerAll
    \/ \E r \in Reqs : InGather(r) /\ Runs(r) /\ ReqTrigger(r, FanAgent[r], "sched")
    \/ \E r \in Reqs, clientErr \in BOOLEAN : Runs(r) /\ ReqLoad(r, clientErr)
    \/ \E r \in Reqs, outcome \in CycleOutcomes, n \in 0..MaxConcDecisions,
          logged \in LogOutcomes : Runs(r) /\ ReqLlm(r, outcome, n, logged)
    \/ \E r \in Reqs, d \in ConcDecisions : Runs(r) /\ ReqDecide(r, d, "none")
    \/ \E r \in Reqs, broken \in BOOLEAN : Runs(r) /\ ReqWriteRaises(r, broken)
    \/ \E r \in Reqs : Runs(r) /\ ReqSaveTx(r)
    \/ \E r \in Reqs : Runs(r) /\ ReqPosDelete(r)
    \/ \E r \in Reqs : Runs(r) /\ ReqPosSave(r)
    \/ \E r \in Reqs : Runs(r) /\ ReqCashWrite(r)
    \/ \E r \in Reqs : Runs(r) /\ ReqAgentSave(r)
    \/ \E r \in Reqs : Runs(r) /\ ReqFinish(r)
    \/ GatherAll

SpecFan == InitFan /\ [][NextFan]_vars

\* Requests to the cached stock routes.
InitCache ==
    /\ InitIdle
    /\ InitRows
    /\ agents = [a \in Agents |-> ReadyAgent]

NextCache ==
    \/ \E p \in StockReqs, endpoint \in CachedEndpoints, custom \in BOOLEAN :
          StockGet(p, endpoint, custom)
    \/ \E p \in StockReqs, out \in AkOutcomes : StockAttempt(p, out)
    \/ \E p \in StockReqs : StockRetry(p)
    \/ \E k \in CacheKeys : CacheExpire(k)

SpecCache == InitCache /\ [][NextCache]_vars

\* One trigger, with the create, update, delete, pause and resume endpoints
\* answering other requests while its cycle runs; a2 may have no row yet.
InitDelete ==
    /\ InitIdle
    /\ InitRows
    /\ agents \in [Agents -> [status : AgentStatuses \cup {NoRow}, cash : {InitCash},
                              provider : ProviderStates]]
    /\ agents["a1"].status # NoRow
    /\ agents["a2"] \in {ReadyAgent, [ReadyAgent EXCEPT !.status = NoRow]}

NextDelete ==
    \/ CycleSteps
    \/ \E r \in SoloReqs : RepoOrderUpdateStatus(<<r, 1>>, "rejected", "late")
    \/ \E a \in Agents : DeleteAgent(a)
    \/ \E a \in Agents : PauseAgent(a)
    \/ \E a \in Agents : ResumeAgent(a)
    \/ \E a \in Agents, status \in AgentStatuses \cup {NoField},
          provider_id \in {"ok", "disabled", NoField} : UpdateAgent(a, status, provider_id)
    \/ \E a \in Agents, provider_id \in {"ok", "unset"} : CreateAgent(a, provider_id)

SpecDelete == InitDelete /\ [][NextDelete]_vars

\* Lock instances of any retry policy on the decision-lock keys.
InitLock ==
    /\ InitIdle
    /\ InitRows
    /\ agents = [a \in Agents |-> ReadyAgent]

NextLock ==
    \/ \E i \in Insts, blocking \in BOOLEAN, err \in BOOLEAN : LockAcquire(i, blocking, err)
    \/ \E i \in Insts, err \in BOOLEAN : LockRelease(i, err)
    \/ \E i \in Insts, t \in {0, LockTickSeconds}, err \in BOOLEAN : LockExtend(i, t, err)
    \/ \E k \in LockKeys : LockTick(k)

SpecLock == InitLock /\ [][NextLock]_vars

\* Runs of the task executor, with agents created, updated, paused, resumed
\* and deleted meanwhile.
InitTask ==
    /\ InitIdle
    /\ InitRows
    /\ agents = [a \in Agents |-> IF a = "a1" THEN ReadyAgent
                                   ELSE [ReadyAgent EXCEPT !.status = NoRow]]

NextTask ==
    \/ \E cfg \in TaskConfigs, callback \in BOOLEAN : TaskStart(cfg, callback)
    \/ \E day \in [weekday : Weekdays, holiday : BOOLEAN] \cup {NoDay} : TaskCheck(day)
    \/ TaskResolve
    \/ \E a \in Agents : TaskAgent(a)
    \/ \E a \in Agents, cb \in CallbackOutcomes : TaskAgentReturn(a, cb)
    \/ TaskAggregate
    \/ \E raises \in BOOLEAN, text \in {"message", ""} : TaskQuoteSync(raises, text)
    \/ \E quote \in SyncQuotes : TaskSyncStore(quote)
    \/ \E outcome \in {"success", "failed", "raise"}, text \in {"message", ""} :
          TaskQuoteSyncReturn(outcome, text)
    \/ \E raises \in BOOLEAN, text \in {"message", ""} : TaskMarketRefresh(raises, text)
    \/ /\ run.pc = "refresh"
       /\ \E fetch \in TaskFetches, idx \in TaskIndexFetches, ok \in BOOLEAN :
             TaskRefresh(fetch, idx, ok)
    \/ RefreshQuoteRow
    \/ \E ok \in BOOLEAN : RefreshHotStore(ok)
    \/ TaskRefreshReturn
    \/ TaskRefreshDone
    \* the callback is read by a run of an agent_decision task, for each of
    \* its agents
    \/ /\ task.task_type = "agent_decision"
       /\ run.pc = "dispatch" \/ run.pending # {}
       /\ \E callback \in BOOLEAN : SetDecisionCallback(callback)
    \* the agents are read by a run of an agent_decision task, once, in the
    \* query of _execute_agents: a later change is seen by the next run
    \/ /\ task.task_type = "agent_decision"
       /\ run.pc = "dispatch"
       /\ \/ \E a \in Agents : PauseAgent(a)
          \/ \E a \in Agents : ResumeAgent(a)
          \/ \E a \in Agents : DeleteAgent(a)
          \/ \E a \in Agents, status \in AgentStatuses \cup {NoField} :
                UpdateAgent(a, status, NoField)
          \/ \E a \in Agents : CreateAgent(a, "ok")

SpecTask == InitTask /\ [][NextTask]_vars

\* Repository calls on their own, around the cycles of one manual trigger,
\* all on the same agent.
RepoAgents == {"a1"}

InitRepo ==
    /\ InitIdle
    /\ InitRows
    /\ agents = [a \in Agents |-> ReadyAgent]

NextRepo ==
    \/ \E a \in RepoAgents, new_cash \in CashTargets : RepoUpdateCash(a, new_cash)
    \/ \E a \in RepoAgents, delta \in CashDeltas : RepoAddCash(a, delta)
    \/ \E a \in RepoAgents, s \in Stocks, pos \in SavedPositions : RepoPositionSave(a, s, pos)
    \/ \E a \in RepoAgents, s \in Stocks : RepoPositionDelete(a, s)
    \/ \E r \in SoloReqs, i \in 1..MaxConcDecisions, status \in OrderStatuses,
          reject_reason \in {"", "late"} :
          RepoOrderUpdateStatus(<<r, i>>, status, reject_reason)
    \/ \E r \in SoloReqs : ReqTrigger(r, "a1", "manual")
    \/ \E r \in SoloReqs : ReqLoad(r, FALSE)
    \/ \E r \in SoloReqs, n \in 0..MaxConcDecisions : ReqLlm(r, "ok", n, "saved")
    \/ \E r \in SoloReqs, d \in ConcDecisions : ReqDecide(r, d, "none")
    \/ \E r \in SoloReqs : ReqSaveTx(r)
    \/ \E r \in SoloReqs : ReqPosDelete(r)
    \/ \E r \in SoloReqs : ReqPosSave(r)
    \/ \E r \in SoloReqs : ReqCashWrite(r)
    \/ \E r \in SoloReqs : ReqAgentSave(r)
    \/ \E r \in SoloReqs : ReqFinish(r)

SpecRepo == InitRepo /\ [][NextRepo]_vars

\* Single upserts, deletes and the rows of a batch upsert in any order on an
\* empty stock_quotes table.
InitQuote ==
    /\ InitIdle
    /\ InitRows
    /\ agents = [a \in Agents |-> ReadyAgent]

\* The quotes handed over in batches: both names on one date, a second date
\* and a date that does not parse.
BatchQuotes ==
    {q \in QuoteInputs :
        /\ q.close_price = QuoteClose + 10
        /\ \/ q.trade_date = "2024-01-02"
           \/ q.trade_date = "2024-01-03" /\ q.stock_name = "PFYH"
           \/ q.trade_date = "20240103" /\ q.stock_name = NoName}
Batches == UNION {[1..n -> BatchQuotes] : n \in 0..MaxBatch}

NextQuote ==
    \/ \E quote \in QuoteInputs : QuoteUpsert(quote)
    \/ \E qs \in Batches : QuoteUpsertBatch(qs)
    \/ QuoteBatchRow
    \/ \E stock_code \in Stocks, trade_date \in TradeDates :
          QuoteDelete(stock_code, trade_date)

SpecQuote == InitQuote /\ [][NextQuote]_vars

\* Template requests in any order on an empty prompt_templates table.
InitTemplate ==
    /\ InitIdle
    /\ InitRows
    /\ agents = [a \in Agents |-> ReadyAgent]

NextTemplate ==
    \/ \E t \in TemplateIds, name \in TemplateNames, content \in TemplateContents :
          CreateTemplate(t, name, content)
    \/ \E t \in TemplateIds, name \in TemplateNames \cup {NoField},
          content \in TemplateContents \cup {NoField} : UpdateTemplate(t, name, content)
    \/ \E t \in TemplateIds : DeleteTemplate(t)

SpecTemplate == InitTemplate /\ [][NextTemplate]_vars

\* Requests to the stock routes, one after another.
InitStock ==
    /\ InitIdle
    /\ InitRows
    /\ agents = [a \in Agents |-> ReadyAgent]

NextStock ==
    \E endpoint \in StockEndpoints \cup AiEndpoints, code \in Stocks,
       raised \in {"none"} \cup ExcClasses : StockRequest(endpoint, code, raised)

SpecStock == InitStock /\ [][NextStock]_vars

\* One public refresh call on an empty market_data table, commit by commit,
\* with a reader in another session.
InitMarket ==
    /\ InitIdle
    /\ InitRows
    /\ agents = [a \in Agents |-> ReadyAgent]

NextMarket ==
    \/ /\ market.op = "none"
       /\ \E fetch \in SpotFetches, injected \in BOOLEAN : RefreshAll(fetch, injected)
    \/ \E ok \in BOOLEAN : RefreshSentimentStep(ok)
    \/ \E idx \in IndexFetches, ok \in BOOLEAN : RefreshIndexStep(idx, ok)
    \/ RefreshHotStep
    \/ RefreshQuoteRow
    \/ \E ok \in BOOLEAN : RefreshHotStore(ok)
    \/ /\ market.op = "none"
       /\ \E fetch \in SpotFetches, ok \in BOOLEAN : RefreshMarketSentiment(fetch, ok)
    \/ \E idx \in IndexFetches, ok \in BOOLEAN : RefreshIndexOverview(idx, ok)
    \/ /\ market.op = "none"
       /\ \E fetch \in SpotFetches, injected \in BOOLEAN : RefreshHotStocks(fetch, injected)
    \/ GetAllMarketData

SpecMarket == InitMarket /\ [][NextMarket]_vars

\* Program positions between a successful acquire and the release.
InCycle == {"load", "llm", "decide", "save_tx", "pos_delete", "pos_save",
            "cash", "agent_save", "finish"}
Running(a) == {r \in Reqs : req[r].agent = a /\ req[r].pc \in InCycle}

\* C1: in every reachable state, TTL expiry included, at most one decision
\* cycle per agent is between its successful lock acquisition and its release.
C1_SingleInFlight ==
    \A a \in Agents : Cardinality(Running(a)) <= 1

\* C2: release deletes the key only when it holds the caller's token; a
\* release by an instance that is not the owner (it never acquired, or its TTL
\* elapsed and another instance acquired) returns false and leaves the key,
\* the owner's token and its expiry as they were.
C2_ReleaseOnlyByOwner ==
    lkLast.op = "release" =>
        /\ lkLast.ret => lkLast.before.val = lkLast.inst /\ lkLast.after = NoVal
        /\ lkLast.before.val # lkLast.inst =>
              ~lkLast.ret /\ lkLast.after = lkLast.before

\* An instance that had acquired, lost the key to the TTL and to another
\* instance, and then released.
C2_Witness ==
    /\ lkLast.op = "release"
    /\ lkLast.had
    /\ lkLast.before.val \in Insts \ {lkLast.inst}
    /\ ~lkLast.ret

RowsOf(r) ==
    {i \in DOMAIN llmLogs : llmLogs[i].req = r}
NoRowsOf(r) ==
    /\ RowsOf(r) = {}
    /\ \A i \in DOMAIN decisionLogs : decisionLogs[i].req # r
    /\ \A o \in orders : o.id[1] # r
    /\ \A t \in txs : t.order[1] # r

\* Two manual triggers for the same agent have returned, the second having
\* arrived while the first held the decision lock, and the LLM call of the
\* first succeeded.
Overlapped(r, s) ==
    /\ r # s
    /\ req[r].pc = "done" /\ req[s].pc = "done"
    /\ req[r].kind = "manual" /\ req[s].kind = "manual"
    /\ req[s].blockedBy = r
    /\ req[r].outcome = "ok"

\* The LLM request log rows of cycle r that were committed.
CommittedRowsOf(r) == {i \in RowsOf(r) : llmLogs[i].status # "rolled_back"}

\* C3 as stated: of two overlapping manual triggers whose LLM call succeeds,
\* the first returned success=true, the second success=false with the busy
\* error, and the LLM request log holds exactly one row of the two.
C3_ConcurrentTrigger ==
    \A r, s \in Reqs :
        Overlapped(r, s)
        => /\ req[r].resp.success
           /\ ~req[s].resp.success /\ req[s].resp.error = "busy"
           /\ Cardinality(CommittedRowsOf(r) \cup CommittedRowsOf(s)) = 1

\* C3, amended: of two overlapping manual triggers whose LLM call succeeds,
\* the second returned success=false with the busy error and logged nothing;
\* the first returned success=true unless a pass of its order loop raised,
\* and then success=false with the message of the exception; the LLM request
\* log holds exactly one row of the two unless the log callback's own write
\* failed, and then none.
C3_OverlappingTrigger ==
    \A r, s \in Reqs :
        Overlapped(r, s)
        => /\ req[r].resp.success <=> req[r].resp.error \notin LoopMessages
           /\ ~req[s].resp.success /\ req[s].resp.error = "busy"
           /\ RowsOf(s) = {}
           /\ Cardinality(CommittedRowsOf(r)) = IF req[r].logged = "saved" THEN 1 ELSE 0
           /\ Cardinality(RowsOf(r)) <= 1

\* Both triggers returned, the second one busy behind the first, whose cycle
\* executed an order.
C3_Witness ==
    /\ req["r1"].pc = "done" /\ req["r2"].pc = "done"
    /\ req["r1"].kind = "manual" /\ req["r2"].kind = "manual"
    /\ req["r2"].blockedBy = "r1" /\ req["r2"].agent = "a1"
    /\ req["r1"].outcome = "ok" /\ req["r1"].resp.executed = 1
    /\ req["r2"].resp.error = "busy"

\* C4: a trigger whose SET NX found the key held has returned the busy result
\* after that one attempt, never sleeps or tries again, never runs later, and
\* has made no LLM call, no database row and no release.
C4_BusyImmediately ==
    \A s \in Reqs :
        req[s].blockedBy # NoTok =>
            /\ req[s].pc = "done"
            /\ req[s].attempt = 1
            /\ req[s].resp = [success |-> FALSE, error |-> "busy", executed |-> 0,
                              http |-> HttpStatus(req[s].kind)]
            /\ ~req[s].acquired
            /\ req[s].released = "no"
            /\ NoRowsOf(s)
            /\ redis[req[s].agent].val # s

\* A scheduled trigger returned busy while the holder was still in its cycle
\* and had already written an order.
C4_Witness ==
    \E r, s \in Reqs :
        /\ req[s].blockedBy = r /\ req[s].kind = "sched" /\ req[s].pc = "done"
        /\ req[r].pc \in InCycle
        /\ redis[req[s].agent].val = r
        /\ \E o \in orders : o.id[1] = r

\* C5: an invocation that acquired the decision lock and has returned has
\* called release, and the key no longer holds its token.
C5_LockAlwaysReleased ==
    \A r \in Reqs :
        req[r].pc = "done" /\ req[r].acquired =>
            /\ req[r].released # "no"
            /\ redis[req[r].agent].val # r

\* The log row of the run in progress or last returned.
CurLog == taskLogs[run.log]
\* The run has returned and was not skipped; it was an agent_decision run.
Dispatched == run.log > 0 /\ run.pc = "idle" /\ CurLog.status # "skipped"
AgentRun == Dispatched /\ task.task_type = "agent_decision"
FanOutRaised == InRaises(AgentIdsOrAll(task.agent_ids))

\* C6: a run of a paused task, or of a trading_day_only task on a non-trading
\* day, writes exactly one log row, which ends skipped with the reason (task
\* paused; non-trading day with the weekday's name), and makes no decision
\* callback, no quote sync and no refresh call.
C6_SkipRules ==
    run.log > 0 =>
        /\ Len(taskLogs) = run.n
        /\ task.status = "paused" =>
              /\ effects = NoEffects
              /\ \/ run.pc = "check" /\ CurLog.status = "running"
                 \/ /\ run.pc = "idle" /\ CurLog.status = "skipped" /\ CurLog.completed
                    /\ CurLog.skip_reason = "task_paused"
        /\ ( /\ task.status # "paused" /\ task.trading_day_only
             /\ run.pc # "check" /\ ~IsTradingDay(run.day) ) =>
              /\ effects = NoEffects
              /\ run.pc = "idle" /\ CurLog.status = "skipped" /\ CurLog.completed
              /\ CurLog.skip_reason = "non_trading_day"
              /\ CurLog.skip_weekday = WeekdayNames[run.day.weekday + 1]
              /\ CurLog.agent_results = {}

\* A trading_day_only market_refresh task run on a Saturday.
C6_Witness ==
    /\ run.log > 0 /\ run.pc = "idle"
    /\ task.task_type = "market_refresh" /\ task.trading_day_only
    /\ run.day.weekday = 5
    /\ CurLog.status = "skipped" /\ CurLog.skip_weekday = "Sat"

\* C7: every run has exactly one log row; the row is running until the run
\* returns and then in one terminal status with completed_at set, failed with
\* the captured message when the dispatched work raised; a row in a terminal
\* status does not change again.
C7_TaskLogLifecycle ==
    /\ [](/\ Len(taskLogs) = run.n
          /\ \A i \in DOMAIN taskLogs :
                /\ taskLogs[i].status \in {"running", "success", "failed", "skipped"}
                /\ taskLogs[i].completed <=> taskLogs[i].status # "running"
                /\ taskLogs[i].status = "running" => i = run.log /\ run.pc # "idle"
          /\ AgentRun /\ FanOutRaised =>
                CurLog.status = "failed" /\ CurLog.error_message = "exception")
    /\ [][\A i \in DOMAIN taskLogs :
             taskLogs[i].status # "running" => taskLogs'[i] = taskLogs[i]]_vars

\* A run whose fan-out raised (agent_ids is a number) has returned.
C7_Witness ==
    /\ AgentRun /\ FanOutRaised
    /\ task.agent_ids = NotAList
    /\ CurLog.status = "failed" /\ CurLog.completed

AllFailed(results) == results # {} /\ \A x \in results : x.status = "failed"

\* C8 as stated: an agent_decision run's log is failed exactly when there is
\* at least one sub-result and every sub-result failed, success otherwise.
C8_FailedIffAllFailed ==
    AgentRun =>
        /\ CurLog.status \in {"success", "failed"}
        /\ CurLog.status = "failed" <=> AllFailed(CurLog.agent_results)

\* C8, amended: when the fan-out returned its sub-results, the log is failed
\* exactly when there is at least one sub-result and all failed, success
\* otherwise; when the fan-out itself raised, the log is failed with the
\* captured message and no sub-results.
C8_OverallStatus ==
    AgentRun =>
        IF FanOutRaised
        THEN /\ CurLog.status = "failed" /\ CurLog.agent_results = {}
             /\ CurLog.error_message = "exception"
        ELSE /\ CurLog.status \in {"success", "failed"}
             /\ CurLog.status = "failed" <=> AllFailed(CurLog.agent_results)
             /\ {x.agent : x \in CurLog.agent_results} = DOMAIN run.rows

\* A partial success: one sub-result failed, one succeeded, the log is success.
C8_Witness ==
    /\ AgentRun
    /\ \E x, y \in CurLog.agent_results : x.status = "failed" /\ y.status = "success"
    /\ CurLog.status = "success"

\* An agent_decision run after its fan-out, in which no agent found the
\* decision callback unset.
FannedOut == AgentRun /\ ~FanOutRaised /\ effects.nocallback = {}

\* C9 as stated: the callback ran for exactly the agents active at resolution
\* time that agent_ids selects: all of them for ["all"], otherwise the listed
\* ones.
C9_ListedOrAll ==
    FannedOut => effects.callbacks = MutResolveListed(task.agent_ids.ids, run.active)

\* C9, amended: the callback runs only for agents that were active at
\* resolution time and, once the run has returned, has run for exactly: all of
\* those when agent_ids is empty or contains "all", otherwise the listed ones
\* among them.
C9_TargetSet ==
    /\ effects.callbacks \subseteq run.active
    /\ FannedOut =>
          effects.callbacks =
              IF task.agent_ids.ids = {} \/ "all" \in task.agent_ids.ids
              THEN run.active
              ELSE task.agent_ids.ids \cap run.active

\* agent_ids lists "all" next to a1: the callback ran for a2 as well.
C9_Witness ==
    /\ FannedOut
    /\ task.agent_ids.ids = {"all", "a1"}
    /\ effects.callbacks = {"a1", "a2"}

RejectReasons == {"LOT_SIZE_ZERO", "PRICE_OUT_OF_BAND", "T1_VIOLATION",
                  "INSUFFICIENT_SHARES", "INSUFFICIENT_CASH", "FEES_EXCEED_PROCEEDS"}

\* C10: after a buy/sell decision failed order validation, the orders table
\* holds a row of that cycle with status rejected and the reject reason.
C10_RejectedOrderRecorded ==
    \A r \in Reqs :
        req[r].last \in RejectReasons =>
            \E o \in orders :
                /\ o.id[1] = r /\ o.agent = req[r].agent
                /\ o.status = "rejected" /\ o.reject = req[r].last

\* C11: a pass of the loop in which the processor rejects the order leaves the
\* persisted positions and agent rows, the in-memory cash and positions (the
\* cash written at the end) and the executed count as they were, and the loop
\* goes on to the next decision, or to the end when it was the last one.
C11_RejectContinues ==
    [][\A r \in Reqs :
          ( /\ req[r].pc = "decide"
            /\ req'[r] # req[r]
            /\ req'[r].last \in RejectReasons )
          => /\ positions' = positions /\ agents' = agents
             /\ req'[r].cash = req[r].cash /\ req'[r].pos = req[r].pos
             /\ req'[r].executed = req[r].executed
             /\ IF req[r].idx < req[r].nDec
                THEN req'[r].pc = "decide" /\ req'[r].idx = req[r].idx + 1
                ELSE /\ req'[r].pc = IF req[r].executed > 0 THEN "cash" ELSE "finish"
                     /\ req'[r].idx = req[r].idx]_vars

\* The first decision was rejected and the loop stands at the second one.
C11_Witness ==
    \E r \in Reqs :
        /\ req[r].pc = "decide" /\ req[r].idx = 2
        /\ req[r].last \in RejectReasons

OrdersOf(r) == {o \in orders : o.id[1] = r}
TxsOf(r) == {t \in txs : t.order[1] = r}
StartPositions(a) == [s \in Stocks |-> IF a = "a1" THEN HeldPos ELSE NoPos]

\* C12: a cycle whose LLM call or parse failed (success=false) has, once it
\* returned, persisted no Order and no Transaction row, left the agent's
\* positions and cash as they were, and returned success=false with the
\* cycle's error_message; and a cycle that parsed N decisions never holds more
\* than N Order rows.
C12_FailedCycleNoRows ==
    \A r \in Reqs :
        /\ ( req[r].pc = "done" /\ req[r].outcome \in CycleOutcomes \ {"ok"} )
           => /\ OrdersOf(r) = {} /\ TxsOf(r) = {}
              /\ positions[req[r].agent] = StartPositions(req[r].agent)
              /\ agents[req[r].agent].cash = InitCash
              /\ req[r].resp = [success |-> FALSE, error |-> req[r].outcome,
                                executed |-> 0, http |-> HttpStatus(req[r].kind)]
        /\ req[r].pc \in InCycle => Cardinality(OrdersOf(r)) <= req[r].nDec

\* A cycle on a1 whose response could not be parsed has returned.
C12_Witness ==
    /\ req["r1"].pc = "done"
    /\ req["r1"].outcome = "parse_error"
    /\ req["r1"].agent = "a1"

\* C13: every hold/wait pass adds exactly one Order row (side hold, status
\* filled, no stock_code, quantity or price) and exactly one Transaction row
\* for it (no fees), and changes no position, no agent row and nothing of the
\* in-memory portfolio; every hold Order has exactly one Transaction, whatever
\* OrderRepository.update_status made of its status since; and the cash write
\* is reached only by a cycle that saved a buy or sell order.
C13_HoldRows ==
    /\ [](\A o \in orders :
            o.side = "hold" =>
                /\ o.stock = "" /\ o.quantity = 0 /\ o.price = 0
                /\ Cardinality({t \in txs : t.order = o.id}) = 1
                /\ \A t \in txs : t.order = o.id =>
                       /\ t.side = "hold" /\ t.fees = -1
                       /\ t.stock = "" /\ t.quantity = 0 /\ t.price = 0)
    /\ [](\A r \in Reqs :
            req[r].pc \in {"cash", "agent_save"} =>
                \E o \in OrdersOf(r) : o.side \in {"buy", "sell"})
    /\ [][\A r \in Reqs :
            ( /\ req[r].pc = "decide"
              /\ req'[r] # req[r]
              /\ req'[r].last = "hold" )
            => /\ \E o \in orders' \ orders :
                     /\ o.side = "hold" /\ o.id = <<r, req[r].idx>>
                     /\ o.status = "filled" /\ o.reject = "none"
                     /\ o.stock = "" /\ o.quantity = 0 /\ o.price = 0
                     /\ orders' = orders \cup {o}
               /\ \E t \in txs' \ txs :
                     /\ t.order = <<r, req[r].idx>>
                     /\ txs' = txs \cup {t}
               /\ positions' = positions /\ agents' = agents
               /\ req'[r].cash = req[r].cash /\ req'[r].pos = req[r].pos
               /\ req'[r].executed = req[r].executed]_vars

\* A cycle of two hold/wait decisions stands at its end: two hold Orders, two
\* Transactions, nothing executed and the cash as it was.
C13_Witness ==
    /\ req["r1"].pc = "finish" /\ req["r1"].nDec = 2 /\ req["r1"].executed = 0
    /\ Cardinality({o \in OrdersOf("r1") : o.side = "hold"}) = 2
    /\ Cardinality(TxsOf("r1")) = 2
    /\ agents[req["r1"].agent].cash = InitCash

\* What a filled order does to the cash: -(quantity*price + fees) for a buy,
\* +(quantity*price - fees) for a sell, nothing for a hold row.
CashDelta(o) ==
    LET notional == o.quantity * o.price
    IN IF o.side = "buy" THEN 0 - (notional + Fees("buy", o.stock, notional))
       ELSE IF o.side = "sell" THEN notional - Fees("sell", o.stock, notional)
       ELSE 0

RECURSIVE SumCashDelta(_)
SumCashDelta(S) ==
    IF S = {} THEN 0
    ELSE LET o == CHOOSE x \in S : TRUE
         IN CashDelta(o) + SumCashDelta(S \ {o})

FilledOrders(a) == {o \in orders : o.agent = a /\ o.status = "filled"}

\* C14: whenever no cycle of an agent is running, on whatever path the last
\* one ended, the agent's persisted cash is the starting cash plus the cash
\* effect of every persisted filled order of that agent.
C14_CashConservation ==
    \A a \in Agents :
        Running(a) = {} =>
            agents[a].cash = InitCash + SumCashDelta(FilledOrders(a))

\* C15: in every persisted state, whatever cycles and repository calls
\* (update_cash, add_cash with a delta of either sign, PositionRepository.save)
\* came before, every agent's current_cash is >= 0 and every position row
\* has shares > 0.
C15_NonNegative ==
    \A a \in Agents :
        /\ agents[a].cash >= 0
        /\ \A s \in Stocks : positions[a][s].exists => positions[a][s].shares > 0

\* C16: no position row ever has 0 shares (the table holds one row per agent
\* and stock), and when the settlement of a filled sell that brought the
\* holding to 0 shares has written the position, the row of that agent and
\* stock is gone.
C16_PositionClosure ==
    /\ [](\A a \in Agents, s \in Stocks :
            positions[a][s].exists => positions[a][s].shares > 0)
    /\ [][\A r \in Reqs :
            ( /\ req[r].pc = "pos_save" /\ req'[r].pc # "pos_save"
              /\ req[r].cur.kind = "sell"
              /\ req[r].pos[req[r].cur.stock].shares = 0 )
            => ~positions'[req[r].agent][req[r].cur.stock].exists]_vars

\* Two filled sells of 100 shares closed a1's holding of 200: the loop is
\* over, the in-memory position is gone and so is the row.
C16_Witness ==
    /\ req["r1"].pc = "cash" /\ req["r1"].executed = 2
    /\ req["r1"].agent = "a1"
    /\ ~req["r1"].pos["600000"].exists
    /\ ~positions["a1"]["600000"].exists

\* C17: no committed state shows a filled order partly applied: every filled
\* buy or sell Order has its Transaction, an agent whose position rows
\* differ from the starting ones has its cash changed too, and while an order
\* is being settled the row of a position that is still held is present.
C17_AtomicSettlement ==
    /\ \A o \in orders :
          o.status = "filled" /\ o.side \in {"buy", "sell"} =>
              \E t \in txs : t.order = o.id
    /\ \A a \in Agents :
          positions[a] # StartPositions(a) => agents[a].cash # InitCash
    /\ \A r \in Reqs :
          ( /\ req[r].pc \in {"pos_delete", "pos_save"}
            /\ req[r].pos[req[r].cur.stock].exists )
          => positions[req[r].agent][req[r].cur.stock].exists

\* C18: in every state each filled Order (buy, sell or hold) has exactly one
\* Transaction naming it, and every Transaction names a filled Order.
C18_OneTxPerFilledOrder ==
    /\ \A o \in orders :
          o.status = "filled" => Cardinality({t \in txs : t.order = o.id}) = 1
    /\ \A t \in txs :
          \E o \in orders : o.id = t.order /\ o.status = "filled"

RowsOfKey(k) == {i \in DOMAIN quotes : RowKey(quotes[i]) = k}

\* C19: after any sequence of single and batch upserts every key that was
\* upserted has exactly one row, that row holds the values of the latest
\* upsert for the key, and upserting a quote a second time leaves the table
\* as it was after the first time.
C19_UpsertIdempotent ==
    /\ \A k \in QuoteKeys :
          upserted.latest[k].seen =>
              /\ Cardinality(RowsOfKey(k)) = 1
              /\ \A i \in RowsOfKey(k) :
                    /\ quotes[i].close_price = upserted.latest[k].close_price
                    /\ quotes[i].stock_name = upserted.latest[k].stock_name
    /\ \A quote \in QuoteInputs :
          Upsert(Upsert(quotes, quote).rows, quote).rows = Upsert(quotes, quote).rows

\* C20: a manual trigger for a deleted (or missing) agent has failed with
\* HTTP 404 AGENT_NOT_FOUND, one for a paused agent with HTTP 400
\* AGENT_PAUSED, and neither made an LLM call or wrote an order.
C20_TriggerErrorCodes ==
    \A r \in Reqs :
        ( /\ req[r].pc = "done" /\ req[r].kind = "manual" /\ req[r].acquired
          /\ agents[req[r].agent].status \in {"deleted", "paused"} )
        => /\ agents[req[r].agent].status = "deleted" =>
                 req[r].resp.http = 404 /\ req[r].resp.error = "http404"
           /\ agents[req[r].agent].status = "paused" =>
                 req[r].resp.http = 400 /\ req[r].resp.error = "http400"
           /\ RowsOf(r) = {} /\ OrdersOf(r) = {} /\ TxsOf(r) = {}

DecisionLogsOf(r) == {i \in DOMAIN decisionLogs : decisionLogs[i].req = r}
\* The messages of the exceptions that reach the except clause.
Raised == LoopMessages \cup {"bad protocol", "http404", "http400"}

\* C21 as stated: a manual trigger that ended in an exception has written
\* exactly one decision_logs row.
C21_ExactlyOneLogRow ==
    \A r \in Reqs :
        ( req[r].pc = "done" /\ req[r].kind = "manual" /\ req[r].resp.error \in Raised )
        => Cardinality(DecisionLogsOf(r)) = 1

\* C21, amended: a manual trigger that ended in an exception has written
\* exactly one decision_logs row unless the insert of that row raised, and
\* then none; the row is for its agent, with status api_error when the
\* lower-cased message holds one of the keywords and no_trade otherwise; and
\* either way it has returned success=false with the message.
C21_DecisionLogOnException ==
    \A r \in Reqs :
        ( req[r].pc = "done" /\ req[r].kind = "manual" /\ req[r].resp.error \in Raised )
        => /\ req[r].dlog \in {"saved", "failed"}
           /\ Cardinality(DecisionLogsOf(r)) = IF req[r].dlog = "saved" THEN 1 ELSE 0
           /\ \A i \in DecisionLogsOf(r) :
                 /\ decisionLogs[i].agent = req[r].agent
                 /\ decisionLogs[i].status =
                       IF \E keyword \in Keywords :
                             Contains(Lower(MessageText(req[r].resp.error)), keyword)
                       THEN "api_error" ELSE "no_trade"
           /\ ~req[r].resp.success

\* A manual cycle raised "API down" in its loop and its row says api_error.
C21_Witness ==
    /\ req["r1"].pc = "done" /\ req["r1"].kind = "manual"
    /\ req["r1"].resp.error = "API down"
    /\ \E i \in DecisionLogsOf("r1") : decisionLogs[i].status = "api_error"

\* C22: extend returns true exactly when the key holds the caller's token,
\* and then the key keeps the token and gets the new expiry; otherwise it
\* returns false and the key's value and expiry are as before.
C22_ExtendIffOwner ==
    lkLast.op = "extend" =>
        /\ lkLast.ret <=> lkLast.before.val = lkLast.inst
        /\ lkLast.ret => lkLast.after = [val |-> lkLast.inst, ttl |-> lkLast.ttl]
        /\ ~lkLast.ret => lkLast.after = lkLast.before

\* C22, with the failure of the Redis call: extend returns true exactly when
\* the call went through and the key holds the caller's token, and then the
\* key keeps the token and gets the new expiry; when the key is absent,
\* expired or another instance's, or when the call raised, it returns false
\* and the key's value and expiry are as before.
C22_ExtendOwnerOnly ==
    lkLast.op = "extend" =>
        /\ lkLast.ret <=> (lkLast.before.val = lkLast.inst /\ ~lkLast.raised)
        /\ lkLast.ret => lkLast.after = [val |-> lkLast.inst, ttl |-> lkLast.ttl]
        /\ ~lkLast.ret => lkLast.after = lkLast.before

\* The owner extended a key whose TTL had partly run down.
C22_Witness ==
    /\ lkLast.op = "extend" /\ lkLast.ret
    /\ lkLast.before.val = lkLast.inst
    /\ lkLast.before.ttl < lkLast.after.ttl

\* C23: an acquire by the instance whose token the key holds (the TTL has not
\* elapsed), with Redis answering, returns true.
C23_Reentrant ==
    ( /\ lkLast.op = "acquire"
      /\ lkLast.before.val = lkLast.inst
      /\ ~lkLast.raised )
    => lkLast.ret

\* A market_refresh run has returned and was not skipped.
RefreshRun == Dispatched /\ task.task_type = "market_refresh"

\* C24: a market_refresh run is recorded as success exactly when all three
\* refreshers were run and each returned true, and a failed run carries an
\* error_message.
C24_AllThreeRefreshed ==
    RefreshRun =>
        /\ CurLog.status \in {"success", "failed"}
        /\ CurLog.status = "success" <=>
              (effects.refresh = RefreshTypes /\ effects.refreshed = RefreshTypes)
        /\ CurLog.status = "failed" => CurLog.error_message # "none"

\* C24, for the refreshers the task's config selects: the run is recorded as
\* success exactly when nothing raised and every refresher that was run (those
\* of config.refresh_types, all three when it is absent or empty) returned
\* true; a run failed by a refresher that returned false carries the message
\* of a partial failure, a run failed by an exception carries the text of the
\* exception, and no error_message when that text is empty.
C24_SelectedRefreshed ==
    RefreshRun =>
        /\ CurLog.status \in {"success", "failed"}
        /\ CurLog.status = "success" <=>
              ( /\ ~effects.refresh_raised
                /\ effects.refresh = RefreshCalls(task.refresh_types)
                /\ effects.refreshed = effects.refresh )
        /\ CurLog.status = "success" => CurLog.error_message = "none"
        /\ (CurLog.status = "failed" /\ ~effects.refresh_raised) =>
              CurLog.error_message = "partial_refresh_failed"
        /\ effects.refresh_raised =>
              CurLog.error_message = IF effects.refresh_text = "" THEN "none"
                                     ELSE effects.refresh_text

\* A run configured for the sentiment refresher alone ran it, got true and was
\* recorded as success.
C24_Witness ==
    /\ RefreshRun
    /\ task.refresh_types = [given |-> TRUE, types |-> {"sentiment"}]
    /\ effects.refresh = {"sentiment"}
    /\ effects.refreshed = {"sentiment"}
    /\ CurLog.status = "success"

\* The gathered triggers each took only the lock of their own agent.
OwnLockOnly ==
    /\ \A r \in Reqs : req[r].pc # "idle" => req[r].agent = FanAgent[r]
    /\ \A a \in Agents : redis[a].val \in {NoTok, "i1", TaskOf(a)}

\* No trigger met the session as the failure of another trigger left it:
\* neither its first query nor its log callback raised for that reason.
NoForeignFailure ==
    \A r \in Reqs : /\ req[r].resp.error # "pending_rollback"
                     /\ req[r].logged # "pending_rollback"

\* The response holds one entry per targeted agent, in order, each with the
\* agent's own id and the result of the agent's own trigger.
OneEntryEach ==
    fan.pc = "done" =>
        /\ Len(fan.results) = Len(fan.targets)
        /\ \A i, j \in DOMAIN fan.targets : fan.targets[i] = fan.targets[j] => i = j
        /\ \A a \in Agents :
              agents[a].status = "active" => \E i \in DOMAIN fan.targets : fan.targets[i] = a
        /\ \A i \in DOMAIN fan.targets :
              /\ fan.results[i].agent_id = fan.targets[i]
              /\ req[TaskOf(fan.targets[i])].pc = "done"
              /\ fan.results[i].success = req[TaskOf(fan.targets[i])].resp.success

\* C25: in the fan-out of trigger-all every agent's trigger takes only its own
\* agent's lock, the failure, exception or busy result of one trigger never
\* alters the cycle of another, and the response holds exactly one entry per
\* targeted agent, each with that agent's own id.
C25_FanOutIsolation ==
    /\ OwnLockOnly
    /\ NoForeignFailure
    /\ OneEntryEach

\* C26: soft delete is absorbing: the row of a deleted agent is never erased
\* and no later step, of a pause, resume, delete or trigger request or of a
\* decision cycle that was in flight at the deletion, takes its status away
\* from deleted.
C26_DeleteAbsorbing ==
    [][\A a \in Agents : agents[a].status = "deleted" => agents'[a].status = "deleted"]_vars

\* C27: a template is created with version 1; an update raises the version by
\* exactly 1 if and only if it changes the content; an update that changes only
\* the name, or that is rejected with 400, leaves version and content as they
\* were; the version never decreases.
C27_VersionOnContentChange ==
    /\ (tplLast.op = "create" /\ tplLast.http = 201) => tplLast.after.version = 1
    /\ tplLast.op = "update" =>
          /\ tplLast.after.version = tplLast.before.version + 1
                <=> tplLast.after.content # tplLast.before.content
          /\ tplLast.after.content = tplLast.before.content
                => tplLast.after.version = tplLast.before.version
          /\ tplLast.http = 400 => tplLast.after = tplLast.before
          /\ tplLast.after.version >= tplLast.before.version

\* An AIAnalysisError raised on one of the two ai-analysis routes.
AiAnswered == stockLast.raised = "AIAnalysisError" /\ stockLast.endpoint \in AiEndpoints

\* C28 as stated: a stock request whose body raises is answered by exactly one
\* clause: 404 for StockNotFoundError, 503 for any other StockDataError, and
\* 500 with INTERNAL_ERROR for every other exception.
C28_ThreeOutcomes ==
    stockLast.raised # "none" =>
        /\ Cardinality(stockLast.clauses) = 1
        /\ stockLast.http \in {404, 503, 500}
        /\ stockLast.raised = "StockNotFoundError" <=> stockLast.http = 404
        /\ (stockLast.raised # "StockNotFoundError"
              /\ "StockDataError" \in Mro(stockLast.raised)) <=> stockLast.http = 503
        /\ "StockDataError" \notin Mro(stockLast.raised) <=>
              (stockLast.http = 500 /\ stockLast.error_code = "INTERNAL_ERROR")

\* C28, amended: a stock request whose body raises is answered by exactly one
\* clause: 404 STOCK_NOT_FOUND for StockNotFoundError, 503 STOCK_DATA_ERROR for
\* any other StockDataError, 503 AI_ANALYSIS_ERROR for an AIAnalysisError on
\* the two ai-analysis routes, and 500 INTERNAL_ERROR for every other
\* exception, an AIAnalysisError on any other route among them.
C28_StockErrorMapping ==
    stockLast.raised # "none" =>
        /\ Cardinality(stockLast.clauses) = 1
        /\ stockLast.http \in {404, 503, 500}
        /\ stockLast.raised = "StockNotFoundError" <=>
              (stockLast.http = 404 /\ stockLast.error_code = "STOCK_NOT_FOUND")
        /\ (stockLast.raised # "StockNotFoundError"
              /\ "StockDataError" \in Mro(stockLast.raised)) <=>
              (stockLast.http = 503 /\ stockLast.error_code = "STOCK_DATA_ERROR")
        /\ AiAnswered <=>
              (stockLast.http = 503 /\ stockLast.error_code = "AI_ANALYSIS_ERROR")
        /\ ("StockDataError" \notin Mro(stockLast.raised) /\ ~AiAnswered) <=>
              (stockLast.http = 500 /\ stockLast.error_code = "INTERNAL_ERROR")

\* The quote route raised StockNotFoundError and answered 404.
C28_Witness ==
    /\ stockLast.endpoint = "quote"
    /\ stockLast.raised = "StockNotFoundError"
    /\ stockLast.http = 404
    /\ stockLast.error_code = "STOCK_NOT_FOUND"

\* list holds the rows of rows, each as often, by descending amount.
SortedFrom(list, rows) ==
    /\ Len(list) = Len(rows)
    /\ \A i \in 1..(Len(list) - 1) : list[i].amount >= list[i + 1].amount
    /\ \A row \in SpotRows :
          Cardinality({i \in 1..Len(list) : list[i] = row}) =
              Cardinality({i \in 1..Len(rows) : rows[i] = row})

\* C29: refresh_all calls the A-share snapshot exactly once, whether the call
\* succeeds or not, and what it stores for market_sentiment and for hot_stocks
\* both come from the dataframe that one call gave.
C29_OneSnapshotCall ==
    market.op = "refresh_all" =>
        /\ market.spot_calls = 1
        /\ "market_sentiment" \in market.done =>
              /\ market.sentiment_df = market.spot_df
              /\ market.results["market_sentiment"] =>
                    market.store.market_sentiment =
                        [present |-> TRUE, content |-> Sentiment(market.spot_df)]
        /\ market.pc \in {"quotes", "idle"} =>
              /\ market.hot_df = market.spot_df
              /\ SortedFrom(market.hot, market.spot_df.rows)
        /\ ("hot_stocks" \in market.done /\ market.results["hot_stocks"]) =>
              /\ market.store.hot_stocks.present
              /\ SortedFrom(market.store.hot_stocks.content, market.spot_df.rows)

\* A refresh_all on a snapshot of three rows stored both artifacts: two rows
\* up in the sentiment, three stocks in the hot list.
C29_Witness ==
    /\ market.op = "refresh_all"
    /\ market.pc = "idle"
    /\ market.done = MarketTypes
    /\ market.spot_calls = 1
    /\ Len(market.spot_df.rows) = 3
    /\ market.store.market_sentiment.present
    /\ market.store.market_sentiment.content.up_count = 2
    /\ market.store.hot_stocks.present
    /\ Len(market.store.hot_stocks.content) = 3

\* The stored sentiment of a snapshot that had rows.
StoredSentiment == market.store.market_sentiment.content

\* C30: for a snapshot of total > 0 rows of which up rose, the stored
\* fear_greed_index is round(100 * up / total), lies in 0..100, and the mood
\* is extreme greed from 70, optimistic from 55, neutral from 45, pessimistic
\* from 30 and extreme fear below.
C30_FearGreedRounded ==
    ( /\ market.op = "refresh_all"
      /\ market.store.market_sentiment.present
      /\ StoredSentiment.total_count > 0 ) =>
        /\ StoredSentiment.fear_greed_index =
              RoundHalfEven(100 * StoredSentiment.up_count, StoredSentiment.total_count)
        /\ StoredSentiment.fear_greed_index \in 0..100
        /\ StoredSentiment.market_mood =
              ( IF StoredSentiment.fear_greed_index >= 70 THEN "extreme_greed"
                ELSE IF StoredSentiment.fear_greed_index >= 55 THEN "optimistic"
                ELSE IF StoredSentiment.fear_greed_index >= 45 THEN "neutral"
                ELSE IF StoredSentiment.fear_greed_index >= 30 THEN "pessimistic"
                ELSE "extreme_fear" )

\* Program positions from the cash write to the end of the cycle.
AfterLoop == {"cash", "agent_save", "finish"}

\* C31: within a cycle the Order row of a filled buy or sell is committed
\* before its Transaction row, and that before the position delete and save of
\* its stock; the cash is written only after every decision of the cycle has
\* been persisted, and once: the cycle writes no row after it, and the only
\* write on its rows from then on is OrderRepository.update_status, which is no
\* step of the cycle.
C31_PersistenceOrder ==
    [][ /\ \A t \in txs' \ txs :
              t.side \in {"buy", "sell"} =>
                  \E o \in orders : o.id = t.order /\ o.side = t.side
        /\ \A a \in Agents :
              positions'[a] # positions[a] =>
                  \E r \in Reqs :
                      /\ req[r].agent = a
                      /\ req[r].pc \in {"pos_delete", "pos_save"}
                      /\ \E t \in txs : t.order = <<r, req[r].idx>>
        /\ \A a \in Agents :
              agents'[a].cash # agents[a].cash =>
                  \E r \in Reqs :
                      /\ req[r].agent = a
                      /\ req[r].pc = "cash"
                      /\ req[r].idx = req[r].nDec
                      /\ req[r].executed =
                             Cardinality({t \in TxsOf(r) : t.side \in {"buy", "sell"}})
        /\ \A r \in Reqs :
              req[r].pc \in AfterLoop =>
                  /\ {o.id : o \in orders'} = {o.id : o \in orders}
                  /\ txs' = txs /\ positions' = positions
                  /\ req'[r] # req[r] =>
                        /\ orders' = orders
                        /\ req'[r].pc \in (AfterLoop \ {"cash"}) \cup {"done"}
      ]_vars

\* A cycle of two filled decisions has written its cash and is about to
\* return: both orders and both transactions are there.
C31_Witness ==
    /\ req["r1"].pc = "finish"
    /\ req["r1"].executed = 2
    /\ agents[req["r1"].agent].cash = req["r1"].cash
    /\ agents[req["r1"].agent].cash # InitCash
    /\ Cardinality({t \in txs : t.side \in {"buy", "sell"}}) = 2

\* C32: every Order row, hold rows included, carries a null log id or the id
\* of an LLM request log row that its own cycle committed before the order.
C32_LogBeforeOrder ==
    \A o \in orders :
        \/ o.log = 0
        \/ /\ o.log \in 1..Len(llmLogs)
           /\ llmLogs[o.log].status # "rolled_back"
           /\ llmLogs[o.log].req = o.id[1]

\* C33: a stock data request surfaces StockDataError only after max_retries
\* upstream attempts; fewer attempts are made only when one succeeds or the
\* stock is reported not found.
C33_RetriesExhausted ==
    fetchLast.op # "none" /\ ~fetchLast.hit =>
        /\ fetchLast.attempts <= DefaultMaxRetries
        /\ fetchLast.raised = "StockDataError" =>
               fetchLast.attempts = DefaultMaxRetries
        /\ fetchLast.attempts < DefaultMaxRetries =>
               fetchLast.raised \in {"none", "StockNotFoundError"}

\* When the request answered, the cache would answer it again: the next
\* identical request hits.
NextHits == fetchLast.then_hits

\* C34: a hit returns the cached value without an upstream call; a request
\* that looks into the cache, misses and succeeds stores the response so that
\* the next identical request hits; a request that ends in an error stores
\* nothing.
C34_ReadThrough ==
    fetchLast.op # "none" =>
        /\ fetchLast.hit => fetchLast.attempts = 0 /\ fetchLast.raised = "none"
        /\ /\ ~fetchLast.hit /\ fetchLast.raised = "none"
           /\ UsesCache(fetchLast.op, fetchLast.custom)
           => fetchLast.stored /\ NextHits
        /\ fetchLast.raised # "none" => ~fetchLast.stored

\* The callback of agent a was called in this run and returned.
Returned35(a) == a \in effects.callbacks \ effects.raised

\* error_message of the sub-result of agent a.
MessageOf(a) == {m.error_message : m \in {x \in run.messages : x.agent = a}}

\* C35 as stated: a sub-result is failed exactly when the decision callback
\* raised, and is success with a null error_message whenever the callback
\* returned, a cycle result with success=false included.
C35_FailedIffRaised ==
    run.pc = "agents" =>
        \A x \in run.results :
            /\ x.status = "failed" <=> x.agent \in effects.raised
            /\ Returned35(x.agent) => x.status = "success" /\ MessageOf(x.agent) = {"None"}

\* C35 amended: a sub-result is failed exactly when the decision callback
\* raised or the executor has no decision callback; whenever the callback
\* returned it is success with a null error_message, a cycle result with
\* success=false included.
C35_SubResultStatus ==
    run.pc = "agents" =>
        \A x \in run.results :
            /\ x.status = "failed" <=>
                  \/ x.agent \in effects.raised
                  \/ x.agent \in effects.nocallback
            /\ Returned35(x.agent) => x.status = "success" /\ MessageOf(x.agent) = {"None"}

\* One agent's callback returned a cycle result with success=false and its
\* sub-result is there, another agent's callback raised.
C35_Witness ==
    /\ run.pc = "agents"
    /\ \E x, y \in run.results :
          /\ x.agent \in effects.unsuccessful /\ x.status = "success"
          /\ y.agent \in effects.raised /\ y.status = "failed"

\* C36: a step of a decision cycle changes, of an agent row, only the cash:
\* the status (and the provider) that a pause, resume or soft delete committed
\* while the cycle was suspended is still in the row after the cycle's write.
C36_CycleWritesOnlyCash ==
    [][req' # req =>
          \A a \in Agents : /\ agents'[a].status = agents[a].status
                             /\ agents'[a].provider = agents[a].provider]_vars

\* C38: acquire and acquire_async return a boolean and never raise; they make
\* at most retry_times SET NX attempts when blocking and exactly one when not,
\* sleep only between two attempts, count a Redis error as a failed attempt,
\* return true on the first attempt that sets the key and false if and only
\* if none did, all attempts being made then.
C38_AcquireBounded ==
    lkLast.op = "acquire" =>
        LET n == lkLast.attempts
            most == AcquireAttempts(lk[lkLast.inst].retry_times, lkLast.blocking)
        IN /\ Len(lkLast.tries) = n /\ n >= 1 /\ n <= most
           /\ ~lkLast.blocking => n = 1
           /\ lkLast.sleeps = n - 1
           /\ \A j \in 1..(n - 1) : lkLast.tries[j] # "set"
           /\ lkLast.ret <=> lkLast.tries[n] = "set"
           /\ ~lkLast.ret => n = most
           /\ lkLast.raised => ~lkLast.ret /\ lkLast.tries[n] = "error"

\* A blocking acquire that used up its attempts, a Redis error among them,
\* and returned false after sleeping between them.
C38_Witness ==
    /\ lkLast.op = "acquire" /\ lkLast.blocking /\ ~lkLast.ret
    /\ lkLast.attempts = DefaultRetryTimes /\ lkLast.sleeps = DefaultRetryTimes - 1
    /\ \E j \in 1..lkLast.attempts : lkLast.tries[j] = "error"
    /\ \E j \in 1..lkLast.attempts : lkLast.tries[j] = "taken"

\* A step of cycle r that skipped the decision it looked at.
SkipStep(r) ==
    /\ req[r].pc = "decide"
    /\ req'[r] # req[r]
    /\ req'[r].pc \in {"decide", "cash", "finish"}
    /\ req'[r].last = "skipped"

\* C39: a buy or sell decision without stock code, with a missing or
\* non-positive quantity or with a non-positive effective price leaves no
\* Order row behind; skipping it writes no
\* Order or Transaction row and changes no position and no cash, and the loop
\* goes on with the next decision of the list.
C39_MalformedSkipped ==
    /\ [](\A o \in orders :
            o.side \in {"buy", "sell"} =>
                o.stock # "" /\ o.quantity > 0 /\ o.price > 0)
    /\ [](\A r \in Reqs :
            /\ req[r].pc = "decide" /\ req[r].last = "skipped"
            /\ req[r].cur.kind \in {"buy", "sell"}
            => \A o \in OrdersOf(r) : o.id[2] # req[r].idx - 1)
    /\ [][\A r \in Reqs :
            SkipStep(r) =>
                /\ orders' = orders /\ txs' = txs
                /\ positions' = positions /\ agents' = agents
                /\ req'[r].cash = req[r].cash /\ req'[r].pos = req[r].pos
                /\ req'[r].executed = req[r].executed
                /\ req[r].idx < req[r].nDec =>
                      req'[r].pc = "decide" /\ req'[r].idx = req[r].idx + 1]_vars

\* The first decision of a cycle, a buy without a price of a stock without a
\* stored quote, was skipped and the loop stands at the second decision.
C39_Witness ==
    /\ req["r1"].pc = "decide" /\ req["r1"].nDec = 2 /\ req["r1"].idx = 2
    /\ req["r1"].last = "skipped"
    /\ req["r1"].cur.kind = "buy" /\ req["r1"].cur.stock = "000001"
    /\ OrdersOf("r1") = {} /\ TxsOf("r1") = {}
====
